---- MODULE Spec2Model ----
(***************************************************************************)
(* Token-budgeted context assembly engine of novel_workflow:               *)
(*   - SimpleTokenCounter.Count            (token estimator)               *)
(*   - TokenBudget.AllocateTokens          (budget allocator)              *)
(*   - BaseFileManager / TokenBudgetManager truncation                     *)
(*   - BaseFileManager Load / Save / GetCurrent / Update (content store)   *)
(*                                                                         *)
(* A text is a sequence of codepoints.  One codepoint stands for each      *)
(* class the estimator distinguishes: "c" a CJK ideograph, "a" a Latin     *)
(* letter, "1" a digit, "," a punctuation mark, " " a space, "\n" the      *)
(* line feed.                                                              *)
(***************************************************************************)
EXTENDS Integers, Sequences, FiniteSets, TLC

\* ------------------------------------------------------------------ bounds

\* Longest text given to the estimator and the truncators.
MaxLen == 4
\* Largest ceiling given to the truncators (the smallest is -1).
MaxLimit == 3
\* Largest total budget given to NewTokenBudgetManager (the smallest is -1).
MaxTotal == 6
\* Largest modification time the backing file gets: the number of writes
\* (engine and external together) in one run.
MaxClock == 3

\* Largest MaxRetries of a RetryConfig given to ExecuteWithRetry.
MaxRetry == 2

\* Number of Enqueue calls.
MaxTasks == 2

\* ------------------------------------------------------------- codepoints

Alphabet == {"c", "a", "1", ",", " ", "\n"}

\* unicode.IsSpace, as used by strings.Fields and strings.TrimSpace
IsSpace(r) == r \in {" ", "\n"}

\* SimpleTokenCounter.isChinese
isChinese(r) == r = "c"

\* unicode.IsDigit
IsDigit(r) == r = "1"

\* unicode.IsPunct
IsPunct(r) == r = ","

RECURSIVE SeqsUpTo(_)
SeqsUpTo(n) ==
  IF n = 0 THEN {<<>>}
  ELSE LET shorter == SeqsUpTo(n - 1)
       IN  shorter \cup {Append(s, r) : s \in {x \in shorter : Len(x) = n - 1}, r \in Alphabet}

Texts == SeqsUpTo(MaxLen)

\* ---------------------------------------------------------- strings package

\* s[:k] on codepoints
Take(s, k) == SubSeq(s, 1, k)

\* s[k:] on codepoints
Drop(s, k) == SubSeq(s, k + 1, Len(s))

RECURSIVE CountIf(_, _)
\* number of codepoints of s in the set cls
CountIf(s, cls) ==
  IF s = <<>> THEN 0
  ELSE (IF Head(s) \in cls THEN 1 ELSE 0) + CountIf(Tail(s), cls)

RECURSIVE SplitAcc(_, _, _)
SplitAcc(s, sep, cur) ==
  IF s = <<>> THEN <<cur>>
  ELSE IF Head(s) = sep THEN <<cur>> \o SplitAcc(Tail(s), sep, <<>>)
  ELSE SplitAcc(Tail(s), sep, Append(cur, Head(s)))

\* strings.Split(s, "\n"): always at least one element, empty pieces kept
SplitLines(s) == SplitAcc(s, "\n", <<>>)

RECURSIVE FieldsAcc(_, _)
FieldsAcc(s, cur) ==
  IF s = <<>> THEN (IF cur = <<>> THEN <<>> ELSE <<cur>>)
  ELSE IF IsSpace(Head(s))
       THEN (IF cur = <<>> THEN <<>> ELSE <<cur>>) \o FieldsAcc(Tail(s), <<>>)
       ELSE FieldsAcc(Tail(s), Append(cur, Head(s)))

\* strings.Fields(s): the maximal runs of non-space codepoints
Fields(s) == FieldsAcc(s, <<>>)

RECURSIVE Join(_, _)
\* strings.Join(parts, sep), sep a text
Join(parts, sep) ==
  IF parts = <<>> THEN <<>>
  ELSE IF Len(parts) = 1 THEN parts[1]
  ELSE parts[1] \o sep \o Join(Tail(parts), sep)

RECURSIVE TrimLeft(_)
TrimLeft(s) == IF s # <<>> /\ IsSpace(Head(s)) THEN TrimLeft(Tail(s)) ELSE s

RECURSIVE TrimRight(_)
TrimRight(s) ==
  IF s # <<>> /\ IsSpace(s[Len(s)]) THEN TrimRight(Take(s, Len(s) - 1)) ELSE s

\* strings.TrimSpace(s)
TrimSpace(s) == TrimRight(TrimLeft(s))

\* ------------------------------------------------------- SimpleTokenCounter

\* isChineseWord: more than 50% of the codepoints are CJK
isChineseWord(word) == 2 * CountIf(word, {r \in Alphabet : isChinese(r)}) > Len(word)

\* isNumberWord: more than 70% of the codepoints are digits
isNumberWord(word) == 10 * CountIf(word, {r \in Alphabet : IsDigit(r)}) > 7 * Len(word)

RECURSIVE CountWords(_, _)
\* the loop of Count over words: acc = [cc, ew, num, punct]
CountWords(words, acc) ==
  IF words = <<>> THEN acc
  ELSE LET w == Head(words)
           nxt == IF isChineseWord(w) THEN [acc EXCEPT !.cc = @ + Len(w)]
                  ELSE IF isNumberWord(w) THEN [acc EXCEPT !.num = @ + 1]
                  ELSE [acc EXCEPT !.ew = @ + 1, !.punct = @ + CountIf(w, {r \in Alphabet : IsPunct(r)})]
       IN  CountWords(Tail(words), nxt)

\* the closing formula with the terms summed as fractions (in hundredths)
\* and truncated once
CountFormulaFloorOnce(acc) ==
  (150 * acc.cc + 75 * acc.ew + 50 * acc.num + 33 * acc.punct) \div 100

\* the closing formula of Count: every term is truncated to an int on its own
\*   int(chineseChars*1.5) + int(englishWords*0.75) + numbers/2 + punctuation/3
CountFormula(acc) ==
  ((3 * acc.cc) \div 2) + ((3 * acc.ew) \div 4) + (acc.num \div 2) + (acc.punct \div 3)

\* SimpleTokenCounter.Count
Count(text) ==
  IF text = <<>> THEN 0
  ELSE CountFormula(CountWords(Fields(text), [cc |-> 0, ew |-> 0, num |-> 0, punct |-> 0]))

\* ------------------------------------------- BaseFileManager: truncation

RECURSIVE charSearch(_, _, _, _, _)
\* the binary-search loop of truncateLineByCharacters; yields bestEnd
charSearch(runes, left, right, bestEnd, limit) ==
  IF left > right THEN bestEnd
  ELSE LET mid == (left + right) \div 2
       IN  IF mid = 0 THEN charSearch(runes, mid + 1, right, bestEnd, limit)
           ELSE IF Count(Take(runes, mid)) <= limit
                THEN charSearch(runes, mid + 1, right, mid, limit)
                ELSE charSearch(runes, left, mid - 1, bestEnd, limit)

\* BaseFileManager.truncateLineByCharacters
truncateLineByCharacters(line, limit) ==
  IF limit <= 0 THEN <<>>
  ELSE Take(line, charSearch(line, 0, Len(line), 0, limit))

RECURSIVE wordLoop(_, _, _, _)
\* the word loop of truncateLineByWords: whole words are kept while the sum
\* of their own counts stays within limit
wordLoop(words, result, totalTokens, limit) ==
  IF words = <<>> THEN result
  ELSE LET wordTokens == Count(Head(words))
       IN  IF totalTokens + wordTokens > limit THEN result
           ELSE wordLoop(Tail(words), Append(result, Head(words)),
                         totalTokens + wordTokens, limit)

RECURSIVE wordLoopSkipping(_, _, _, _)
\* the word loop with "continue" for "break": a word that does not fit is
\* skipped and later words are still taken
wordLoopSkipping(words, result, totalTokens, limit) ==
  IF words = <<>> THEN result
  ELSE LET wordTokens == Count(Head(words))
       IN  IF totalTokens + wordTokens > limit
           THEN wordLoopSkipping(Tail(words), result, totalTokens, limit)
           ELSE wordLoopSkipping(Tail(words), Append(result, Head(words)),
                                 totalTokens + wordTokens, limit)

\* truncateLineByWords over the skipping word loop
truncateLineByWordsSkipping(line, limit) ==
  IF limit <= 0 THEN <<>>
  ELSE LET words == Fields(line)
           kept == IF Len(words) > 1 THEN wordLoopSkipping(words, <<>>, 0, limit) ELSE <<>>
       IN  IF Len(kept) > 0 THEN Join(kept, <<" ">>)
           ELSE truncateLineByCharacters(line, limit)

\* BaseFileManager.truncateLineByWords
truncateLineByWords(line, limit) ==
  IF limit <= 0 THEN <<>>
  ELSE LET words == Fields(line)
           kept == IF Len(words) > 1 THEN wordLoop(words, <<>>, 0, limit) ELSE <<>>
       IN  IF Len(kept) > 0 THEN Join(kept, <<" ">>)
           ELSE truncateLineByCharacters(line, limit)

RECURSIVE simpleLineLoop(_, _, _, _)
\* the line loop of simpleTokenTruncate; yields [result, totalTokens]
simpleLineLoop(lines, result, totalTokens, limit) ==
  IF lines = <<>> THEN [result |-> result, totalTokens |-> totalTokens]
  ELSE LET line == Head(lines)
           lineTokens == Count(line)
       IN  IF totalTokens + lineTokens > limit
           THEN IF totalTokens < limit
                THEN LET truncatedLine == truncateLineByWords(line, limit - totalTokens)
                     IN  IF truncatedLine # <<>>
                         THEN [result |-> Append(result, truncatedLine),
                               totalTokens |-> totalTokens + Count(truncatedLine)]
                         ELSE [result |-> result, totalTokens |-> totalTokens]
                ELSE [result |-> result, totalTokens |-> totalTokens]
           ELSE simpleLineLoop(Tail(lines), Append(result, line),
                               totalTokens + lineTokens, limit)

\* BaseFileManager.simpleTokenTruncate
simpleTokenTruncate(txt, limit) ==
  IF limit <= 0 THEN [text |-> <<>>, tokens |-> 0]
  ELSE LET r == simpleLineLoop(SplitLines(txt), <<>>, 0, limit)
       IN  [text |-> Join(r.result, <<"\n">>), tokens |-> r.totalTokens]

\* TruncateToLimit with "<" for "<=" in the test that lets a short text through
TruncateToLimitStrict(txt, limit) ==
  LET currentTokens == Count(txt)
  IN  IF currentTokens < limit THEN [text |-> txt, tokens |-> currentTokens]
      ELSE simpleTokenTruncate(txt, limit)

\* BaseFileManager.TruncateToLimit with no budget manager attached
TruncateToLimit(txt, limit) ==
  LET currentTokens == Count(txt)
  IN  IF currentTokens <= limit THEN [text |-> txt, tokens |-> currentTokens]
      ELSE simpleTokenTruncate(txt, limit)

\* ---------------------------------------- TokenBudgetManager: truncation

RECURSIVE tokenWordLoop(_, _, _, _)
\* the word loop of truncateLineByTokens
tokenWordLoop(words, result, totalTokens, maxTokens) ==
  IF words = <<>> THEN result
  ELSE LET wordTokens == Count(Head(words))
       IN  IF totalTokens + wordTokens > maxTokens THEN result
           ELSE tokenWordLoop(Tail(words), Append(result, Head(words)),
                              totalTokens + wordTokens, maxTokens)

\* TokenBudgetManager.truncateLineByTokens
truncateLineByTokens(line, maxTokens) ==
  IF maxTokens <= 0 THEN <<>>
  ELSE Join(tokenWordLoop(Fields(line), <<>>, 0, maxTokens), <<" ">>)

RECURSIVE textLineLoop(_, _, _, _)
\* the line loop of truncateText; yields [result, totalTokens]
textLineLoop(lines, result, totalTokens, maxTokens) ==
  IF lines = <<>> THEN [result |-> result, totalTokens |-> totalTokens]
  ELSE LET line == Head(lines)
           lineTokens == Count(line)
       IN  IF totalTokens + lineTokens > maxTokens
           THEN IF totalTokens < maxTokens
                THEN LET truncatedLine == truncateLineByTokens(line, maxTokens - totalTokens)
                     IN  IF truncatedLine # <<>>
                         THEN [result |-> Append(result, truncatedLine),
                               totalTokens |-> totalTokens + Count(truncatedLine)]
                         ELSE [result |-> result, totalTokens |-> totalTokens]
                ELSE [result |-> result, totalTokens |-> totalTokens]
           ELSE textLineLoop(Tail(lines), Append(result, line),
                             totalTokens + lineTokens, maxTokens)

\* TokenBudgetManager.truncateText
truncateText(txt, maxTokens) ==
  LET r == textLineLoop(SplitLines(txt), <<>>, 0, maxTokens)
  IN  [text |-> Join(r.result, <<"\n">>), tokens |-> r.totalTokens]

\* TokenBudgetManager.TruncateToTokenLimit; maxTokens is the value
\* GetTokenAllocation(component) returned (0 for an unknown component)
TruncateToTokenLimit(txt, maxTokens) ==
  IF txt = <<>> THEN [text |-> <<>>, tokens |-> 0]
  ELSE IF maxTokens <= 0 THEN [text |-> <<>>, tokens |-> 0]
  ELSE LET currentTokens == Count(txt)
       IN  IF currentTokens <= maxTokens THEN [text |-> txt, tokens |-> currentTokens]
           ELSE truncateText(txt, maxTokens)

\* ------------------------------------------------------- budget allocator

\* A fraction is held in units of 1/10000, so 5000 is 0.5 and 1 is 0.0001.
Unit == 10000

\* the fields of TokenPercentages, the keys of ToMap
Components == {"plan", "character", "worldview", "chapters", "index"}

\* the fractions a caller's configuration is drawn from
WeightValues == {-1, 0, 1, 200, 5000, 9999}

TokenPercentages == [Components -> WeightValues]

\* DefaultTokenPercentages, used for a nil percentages argument
DefaultTokenPercentages ==
  [plan |-> 1500, character |-> 1000, worldview |-> 1000, chapters |-> 6000, index |-> 500]

Abs(x) == IF x < 0 THEN 0 - x ELSE x

RECURSIVE SumOver(_, _)
\* the sum of f over the keys in S
SumOver(f, S) ==
  IF S = {} THEN 0
  ELSE LET k == CHOOSE x \in S : TRUE IN f[k] + SumOver(f, S \ {k})

\* Validate without the test for negative fractions
ValidateSumOnly(tp) ==
  IF Abs((tp.plan + tp.character + tp.worldview + tp.chapters + tp.index) - Unit) * 100 > Unit
  THEN "sum"
  ELSE "nil"

\* TokenPercentages.Validate: "nil", or which check failed.
\* math.Abs(total-1.0) > 0.01 is |sum - Unit| * 100 > Unit
Validate(tp) ==
  IF Abs((tp.plan + tp.character + tp.worldview + tp.chapters + tp.index) - Unit) * 100 > Unit
  THEN "sum"
  ELSE IF \E c \in Components : tp[c] < 0 THEN "negative"
  ELSE "nil"

\* the configurations Validate accepts (written as a union so that the set
\* is enumerated once)
ValidPercentages ==
  UNION {IF Validate(tp) = "nil" THEN {tp} ELSE {} : tp \in TokenPercentages}

\* the errors Validate returns for the configurations it rejects
ValidateErrors == UNION {{Validate(tp)} : tp \in TokenPercentages} \ {"nil"}

\* the first loop of AllocateTokens: int(float64(Total)*percentage + 0.999)
ceilTokens(total, percentage) == (total * percentage * 1000 + 999 * Unit) \div (1000 * Unit)

\* the rescaling with the ratio upside down: totalAllocated / Total
adjustTokensInverted(tokens, total, totalAllocated) ==
  LET adjusted == (tokens * totalAllocated) \div total
  IN  IF adjusted < 1 THEN 1 ELSE adjusted

\* the second loop of AllocateTokens: int(float64(tokens) * ratio), at least 1
adjustTokens(tokens, total, totalAllocated) ==
  LET adjusted == (tokens * total) \div totalAllocated
  IN  IF adjusted < 1 THEN 1 ELSE adjusted

\* TokenBudget.AllocateTokens
AllocateTokens(total, percentages) ==
  LET allocation == [c \in Components |-> ceilTokens(total, percentages[c])]
      totalAllocated == SumOver(allocation, Components)
  IN  IF totalAllocated > total
      THEN [c \in Components |-> adjustTokens(allocation[c], total, totalAllocated)]
      ELSE allocation

\* ------------------------------------------ the per-category limited read

\* TokenBudgetManager.GetTokenAllocation: the component's share, 0 for a
\* component the allocation does not hold
GetTokenAllocation(allocation, component) ==
  IF component \in DOMAIN allocation THEN allocation[component] ELSE 0

\* BaseFileManager.TruncateToLimit with a budget manager attached: the limit
\* is left aside for the allocation of the component "default"
TruncateToLimitAttached(allocation, txt, limit) ==
  TruncateToTokenLimit(txt, GetTokenAllocation(allocation, "default"))

\* CharacterManager / WorldviewManager.GetCurrentWithTokenLimit, cur being what
\* GetCurrent returned and tokenBudget the manager attached (or NilManager)
GetCurrentWithTokenLimit(cur, tokenBudget, component, maxTokens) ==
  IF cur = <<>> THEN [text |-> <<>>, tokens |-> 0]
  ELSE IF tokenBudget.exists
       THEN TruncateToTokenLimit(cur,
              GetTokenAllocation(AllocateTokens(tokenBudget.maxTokens, tokenBudget.percentages),
                                 component))
       ELSE TruncateToLimit(cur, maxTokens)

\* IndexReader.GetSummaryWithTokenLimit, summary being what GetSummary returned
GetSummaryWithTokenLimit(summary, tokenBudget, maxTokens) ==
  IF summary = <<>> THEN [text |-> <<>>, tokens |-> 0]
  ELSE IF tokenBudget.exists
       THEN TruncateToLimitAttached(
              AllocateTokens(tokenBudget.maxTokens, tokenBudget.percentages), summary, maxTokens)
       ELSE TruncateToLimit(summary, maxTokens)


\* ------------------------------------------------------ context assembly

\* The placeholders: "无章节标题", "暂无章节摘要", "暂无世界观设定",
\* "暂无章节规划", each one text of its own, written here in ASCII.
NoTitle == <<"(no title)">>
NoSummary == <<"(no summary)">>
NoWorldview == <<"(no worldview)">>
NoPlans == <<"(no plans)">>

\* What a manager built on a file returns from GetCurrent right after its
\* construction: the file's text trimmed, or "" when the file is absent or
\* cannot be read (Load's error is dropped).  A source is what the novel
\* directory holds for one category: status "absent", "failed" (there, but
\* reading it fails) or "ok", and the text.
FreshGetCurrent(src) ==
  IF src.status = "ok" THEN TrimSpace(src.text) ELSE <<>>

\* IndexReader.GetTitle
GetTitle(src) == TrimSpace(FreshGetCurrent(src))

\* IndexReader.GetSummary: the summaries of index.json joined, "" when the
\* index is absent, unreadable or holds none; src.text stands for the joined
\* summaries
GetSummary(src) ==
  IF src.status = "ok" THEN src.text ELSE <<>>

\* ChapterManager.GetLatestChapterContent as the builders use it: the
\* paragraphs joined, and "" both for no chapter and for an error
GetLatestChapterContent(src) ==
  IF src.status = "ok" THEN src.text ELSE <<>>

\* PlannerContentManager.GetPlansWithTokenLimit: "" for no plans (absent or
\* unreadable planner.json included), else the plans' text truncated; src.text
\* stands for the text built from the plans
GetPlansWithTokenLimit(src, tokenBudget, maxTokens) ==
  IF src.status # "ok" \/ src.text = <<>> THEN [text |-> <<>>, tokens |-> 0]
  ELSE IF tokenBudget.exists
       THEN TruncateToTokenLimit(src.text,
              GetTokenAllocation(AllocateTokens(tokenBudget.maxTokens, tokenBudget.percentages),
                                 "plan"))
       ELSE TruncateToLimit(src.text, maxTokens)

\* PlannerContentManager.FormatPlansForContext: the placeholder for no plans,
\* else the heading "章节规划:" (here "(plans)") and the plans
FormatPlansForContext(src) ==
  IF src.status # "ok" \/ src.text = <<>> THEN NoPlans
  ELSE TrimSpace(<<"(plans)", "\n", "\n">> \o src.text)

\* What the character manager of the builders reads.  The builders pass
\* <novelDir>/character.md as the manager's directory, so the manager's file is
\* <novelDir>/character.md/character.md: it is read only when character.md is
\* a directory holding a readable character.md (layout "nested").
CharacterCurrent(src) ==
  IF src.layout = "nested" THEN TrimSpace(src.text) ELSE <<>>

\* NewBaseFileManager under the character manager: MkdirAll makes
\* <novelDir>/character.md a directory when nothing is there
CharacterAfterBuild(src) ==
  IF src.layout = "absent" THEN [src EXCEPT !.layout = "dir"] ELSE src

\* BuildTokenAwareContext once the budget manager exists; every component is
\* in the allocation, so the branches without a limit are never taken
TokenAwareContext(fs, tokenBudget) ==
  LET allocation == AllocateTokens(tokenBudget.maxTokens, tokenBudget.percentages)
      title == GetTitle(fs.title)
      summary == GetSummaryWithTokenLimit(GetSummary(fs.index), tokenBudget,
                                          allocation["index"]).text
      worldview == GetCurrentWithTokenLimit(FreshGetCurrent(fs.worldview), tokenBudget,
                                            "worldview", allocation["worldview"]).text
  IN  [Title |-> IF title = <<>> THEN NoTitle ELSE title,
       Summary |-> IF summary = <<>> THEN NoSummary ELSE summary,
       Worldview |-> IF worldview = <<>> THEN NoWorldview ELSE worldview,
       Characters |-> GetCurrentWithTokenLimit(CharacterCurrent(fs.character), tokenBudget,
                                               "character", allocation["character"]).text,
       Chapter |-> TruncateToTokenLimit(GetLatestChapterContent(fs.chapter),
                                        GetTokenAllocation(allocation, "chapters")).text,
       Plan |-> GetPlansWithTokenLimit(fs.plan, tokenBudget, allocation["plan"]).text]

\* BuildFullContext
FullContext(fs) ==
  LET title == GetTitle(fs.title)
      summary == GetSummary(fs.index)
      worldview == FreshGetCurrent(fs.worldview)
  IN  [Title |-> IF title = <<>> THEN NoTitle ELSE title,
       Summary |-> IF summary = <<>> THEN NoSummary ELSE summary,
       Worldview |-> IF worldview = <<>> THEN NoWorldview ELSE worldview,
       Characters |-> CharacterCurrent(fs.character),
       Chapter |-> GetLatestChapterContent(fs.chapter),
       Plan |-> FormatPlansForContext(fs.plan)]

\* The labels the formatters write before their sections, each one token
\* named after the section it opens.  ContextBuilder.FormatContext writes
\* "章节标题: ", "章节摘要:", "世界观:", "角色信息:", "当前章节:", "规划信息:";
\* NovelContext.FormatContext the same but "规划内容:" and, last, "索引信息:";
\* formatComponent "=== 世界观设定 ===", "=== 角色信息 ===", "=== 章节规划 ===",
\* "=== 章节内容 ===" and, for the index, "=== 章节摘要 ===", the summary's
\* label.
Labels == {"#title", "#summary", "#worldview", "#characters", "#chapters", "#plan", "#index"}

\* a label, a newline, the section
Section(label, body) == <<label, "\n">> \o body

\* ContextBuilder.FormatContext with the plan rendered before the worldview
FormatContextPlanEarly(cd) ==
  <<"#title">> \o cd.Title \o <<"\n", "\n">>
    \o Section("#summary", cd.Summary) \o <<"\n", "\n">>
    \o Section("#plan", cd.Plan) \o <<"\n", "\n">>
    \o Section("#worldview", cd.Worldview) \o <<"\n", "\n">>
    \o Section("#characters", cd.Characters) \o <<"\n", "\n">>
    \o Section("#chapters", cd.Chapter)

\* ContextBuilder.FormatContext
FormatContext(cd) ==
  <<"#title">> \o cd.Title \o <<"\n", "\n">>
    \o Section("#summary", cd.Summary) \o <<"\n", "\n">>
    \o Section("#worldview", cd.Worldview) \o <<"\n", "\n">>
    \o Section("#characters", cd.Characters) \o <<"\n", "\n">>
    \o Section("#chapters", cd.Chapter) \o <<"\n", "\n">>
    \o Section("#plan", cd.Plan)

\* NovelContext.FormatContext
NovelFormatContext(nc) ==
  <<"#title">> \o nc.Title \o <<"\n", "\n">>
    \o Section("#summary", nc.Summary) \o <<"\n", "\n">>
    \o Section("#worldview", nc.Worldview) \o <<"\n", "\n">>
    \o Section("#characters", nc.Characters) \o <<"\n", "\n">>
    \o Section("#plan", nc.Plan) \o <<"\n", "\n">>
    \o Section("#chapters", nc.Chapters) \o <<"\n", "\n">>
    \o Section("#index", nc.Index)

\* TokenAwareGenerator.formatComponent
formatComponent(componentType, body) ==
  Section(CASE componentType = "worldview" -> "#worldview"
            [] componentType = "characters" -> "#characters"
            [] componentType = "plans" -> "#plan"
            [] componentType = "chapters" -> "#chapters"
            [] componentType = "index" -> "#summary", body)

\* aggregateComponents: the priorities slice
priorities == <<"worldview", "characters", "plans", "chapters", "index">>

RECURSIVE aggregateLoop(_, _, _)
\* aggregateComponents: the loop over priorities; a component that is
\* missing or empty is left out
aggregateLoop(components, i, parts) ==
  IF i > Len(priorities) THEN parts
  ELSE LET component == priorities[i]
       IN  IF component \in DOMAIN components /\ components[component] # <<>>
           THEN aggregateLoop(components, i + 1,
                              Append(parts, formatComponent(component, components[component])))
           ELSE aggregateLoop(components, i + 1, parts)

\* TokenAwareGenerator.aggregateComponents
aggregateComponents(components) ==
  Join(aggregateLoop(components, 1, <<>>), <<"\n", "\n">>)


\* ------------------------------------------------------------------ state

VARIABLES
  \* truncation of one text: the call's arguments, which truncator ran
  \* ("none" before the call), and the pair it returned
  text, limit, truncator, retText, retTokens,
  \* budget manager: the manager the caller holds (exists is FALSE for a nil
  \* pointer), the error of the last call ("nil" when it succeeded), and the
  \* maps GetAllocatedTokens returned for the present budget (none, or one)
  manager, budgetErr, allocated,
  \* storage: the parent directory, the backing file (its bytes and its
  \* modification time) and the clock the next write is stamped with
  dirExists, fileExists, fileData, fileModTime, clock,
  \* BaseFileManager: the cached text and the cached modification time
  \* (0 is the zero time.Time)
  current, lastModTime,
  \* the callers: where each is in GetCurrent / Load / Update / Save, its
  \* locals (content: the argument of Save, data: the bytes ReadFile
  \* returned), and what its last call returned
  pc, content, data, ret,
  \* history: the modification time of the file version that content or data
  \* was written as or read from (ver), and of the version the cached text
  \* came from (currentVer)
  ver, currentVer,
  \* history: the cache as it was when the running Update was called
  callCache,
  \* history: the text of the last successful Update while only GetCurrent
  \* has run since (valid is FALSE otherwise)
  fresh,
  \* history: extPending is TRUE from an external write until the next
  \* GetCurrent is called or the engine overwrites the file; expect holds,
  \* for the running or last GetCurrent, the file content that write left,
  \* valid while no write or removal has happened since the call
  extPending, expect,
  \* history: the file as it was when the running or last GetCurrent was
  \* called (seen), and the parent directory as it was when the run began
  seen, dirBefore,
  \* history: TRUE once Load or Save has put a text in the record
  loaded,
  \* context assembly: what the novel directory holds for each category
  \* (files), which builder ran ("none" before), the ContextData and the
  \* error it returned, and which formatter ran on it with what result
  files, built, ctx, ctxErr, formatter, formatted,
  \* the binary search of truncateLineByCharacters: its arguments (sLine,
  \* sLimit), its locals, and where it is ("none", "loop", "done")
  sLine, sLimit, left, right, bestEnd, spc,
  \* PlannerContentManager: the plans of pcm.state, the plans planner.json
  \* holds, whether the file has been written by another process since the
  \* manager last read or wrote it, and the last call with its error and the
  \* value it returned (<<>> for a call that returns only an error)
  state, plannerFile, plannerStale, plannerOp, plannerErr, plannerRet,
  \* ExecuteWithRetry: the config argument (nil, or its MaxRetries and
  \* whether InitialDelay is above 0), the loop's attempt and lastErr, where
  \* the call is (rpc), whether ctx is done and whether the timer of the
  \* running wait has fired, and what the call returned
  retryConfig, attempt, lastErr, rpc, ctxDone, timerDone, retryRet,
  \* history: how often Execute was called; whether the call met one of the
  \* ends (a success, an error not to be retried, a wait that returned the
  \* context's error); whether ctx was cancelled while a wait was running
  executeCalls, retryClosed, cancelledInWait,
  \* MessageQueue: config.MaxRetries, the buffer of the tasks channel and
  \* whether it is closed, whether mq.ctx is done, the two counters, and
  \* whether a goroutine has panicked
  mqMaxRetries, tasks, tasksClosed, mqCtxDone, completedTasks, failedTasks, panicked,
  \* the workers: where each is in workerLoop, the task it holds (0 for
  \* none), the attempt of processTaskWithRetry, and worker.status
  wpc, wTask, wAttempt, wStatus,
  \* the callers: the number of Enqueue calls made, where Shutdown is,
  \* where WaitUntilComplete is and the two numbers of the status it holds
  enqueued, shutdownPc, waitPc, pendingRead, processingRead,
  \* history: the tasks Enqueue accepted, and those it accepted after
  \* Shutdown had begun; per task the calls of its processor, the counter
  \* increments made for it, and whether processTaskWithRetry has returned
  accepted, acceptedLate, processCalls, counted, doneTasks

truncVars == <<text, limit, truncator, retText, retTokens>>
budgetVars == <<manager, budgetErr, allocated>>
fileVars == <<dirExists, fileExists, fileData, fileModTime, clock>>
cacheVars == <<current, lastModTime, currentVer>>
callerVars == <<pc, content, data, ret, ver>>
historyVars == <<callCache, fresh, extPending, expect>>
auditVars == <<seen, dirBefore, loaded>>
storeVars == <<fileVars, cacheVars, callerVars, historyVars, auditVars>>
ctxVars == <<files, built, ctx, ctxErr, formatter, formatted>>
searchVars == <<sLine, sLimit, left, right, bestEnd, spc>>

plannerVars == <<state, plannerFile, plannerStale, plannerOp, plannerErr, plannerRet>>
retryVars == <<retryConfig, attempt, lastErr, rpc, ctxDone, timerDone, retryRet,
               executeCalls, retryClosed, cancelledInWait>>
queueVars == <<mqMaxRetries, tasks, tasksClosed, mqCtxDone, completedTasks, failedTasks,
               panicked, wpc, wTask, wAttempt, wStatus, enqueued,
               shutdownPc, waitPc, pendingRead, processingRead,
               accepted, acceptedLate, processCalls, counted, doneTasks>>
serviceVars == <<plannerVars, retryVars, queueVars>>

vars == <<truncVars, budgetVars, storeVars, ctxVars, searchVars, serviceVars>>

\* what the actions of one component leave alone
notTrunc == <<budgetVars, storeVars, ctxVars, searchVars, serviceVars>>
notBudget == <<truncVars, storeVars, ctxVars, searchVars, serviceVars>>
notStore == <<truncVars, budgetVars, ctxVars, searchVars, serviceVars>>
notCtx == <<truncVars, budgetVars, storeVars, searchVars, serviceVars>>
notSearch == <<truncVars, budgetVars, storeVars, ctxVars, serviceVars>>
notPlanner == <<truncVars, budgetVars, storeVars, ctxVars, searchVars, retryVars, queueVars>>
notRetry == <<truncVars, budgetVars, storeVars, ctxVars, searchVars, plannerVars, queueVars>>
notQueue == <<truncVars, budgetVars, storeVars, ctxVars, searchVars, plannerVars, retryVars>>

\* no planner manager is modelled
PlannerIdle ==
  /\ state = <<>>
  /\ plannerFile = <<>>
  /\ plannerStale = FALSE
  /\ plannerOp = "none"
  /\ plannerErr = "nil"
  /\ plannerRet = <<>>

\* the nil *RetryConfig
NilConfig == [isNil |-> TRUE, MaxRetries |-> 0, delayed |-> FALSE]

\* no call of ExecuteWithRetry is modelled
RetryIdle ==
  /\ retryConfig = NilConfig
  /\ attempt = 0
  /\ lastErr = "nil"
  /\ rpc = "idle"
  /\ ctxDone = FALSE
  /\ timerDone = FALSE
  /\ retryRet = "none"
  /\ executeCalls = 0
  /\ retryClosed = FALSE
  /\ cancelledInWait = FALSE

\* the goroutines of Start: cfg.Workers is 2 unless configured
Workers == {1, 2}

\* the tasks given to Enqueue, in the order of the calls
Tasks == 1..MaxTasks

\* no message queue is modelled
QueueIdle ==
  /\ mqMaxRetries = 0
  /\ tasks = <<>> /\ tasksClosed = FALSE /\ mqCtxDone = FALSE
  /\ completedTasks = 0 /\ failedTasks = 0 /\ panicked = FALSE
  /\ wpc = [w \in Workers |-> "stopped"]
  /\ wTask = [w \in Workers |-> 0]
  /\ wAttempt = [w \in Workers |-> 0]
  /\ wStatus = [w \in Workers |-> "idle"]
  /\ enqueued = 0
  /\ shutdownPc = "idle" /\ waitPc = "idle"
  /\ pendingRead = 0 /\ processingRead = 0
  /\ accepted = {} /\ acceptedLate = {}
  /\ processCalls = [k \in Tasks |-> 0]
  /\ counted = [k \in Tasks |-> 0]
  /\ doneTasks = {}

\* none of the later components is modelled
ServicesIdle == PlannerIdle /\ RetryIdle /\ QueueIdle

\* no truncation call is modelled
TruncIdle ==
  /\ text = <<>>
  /\ limit = 0
  /\ truncator = "none"
  /\ retText = <<>>
  /\ retTokens = 0

\* the nil *TokenBudgetManager
NilManager == [exists |-> FALSE, maxTokens |-> 0, percentages |-> [c \in Components |-> 0]]

\* no budget manager is modelled
BudgetIdle ==
  /\ manager = NilManager
  /\ budgetErr = "nil"
  /\ allocated = {}

\* the callers of one BaseFileManager
Threads == {1, 2}

\* the texts written to the backing file: empty, plain, whitespace-padded
FileTexts == {<<>>, <<"a">>, <<" ", "a">>, <<"c">>}

NoReturn == [op |-> "none", text |-> <<>>, err |-> FALSE]
NoText == [valid |-> FALSE, text |-> <<>>]
NoFile == [exists |-> FALSE, text |-> <<>>]

\* no content store is modelled
StoreIdle ==
  /\ dirExists = FALSE /\ fileExists = FALSE /\ fileData = <<>>
  /\ fileModTime = 0 /\ clock = 1
  /\ current = <<>> /\ lastModTime = 0 /\ currentVer = 0
  /\ pc = [t \in Threads |-> "idle"]
  /\ content = [t \in Threads |-> <<>>]
  /\ data = [t \in Threads |-> <<>>]
  /\ ret = [t \in Threads |-> NoReturn]
  /\ ver = [t \in Threads |-> 0]
  /\ callCache = <<<<>>, 0>>
  /\ fresh = NoText
  /\ extPending = FALSE
  /\ expect = NoText
  /\ seen = NoFile
  /\ dirBefore = FALSE
  /\ loaded = FALSE

\* the six fields of ContextData
Fields6 == {"Title", "Summary", "Worldview", "Characters", "Chapter", "Plan"}

\* the zero ContextData
EmptyContext == [f \in Fields6 |-> <<>>]

\* no context assembly is modelled
CtxIdle ==
  /\ files = <<>>
  /\ built = "none"
  /\ ctx = EmptyContext
  /\ ctxErr = "nil"
  /\ formatter = "none"
  /\ formatted = <<>>

\* no binary search is modelled
SearchIdle ==
  /\ sLine = <<>> /\ sLimit = 0
  /\ left = 0 /\ right = 0 /\ bestEnd = 0
  /\ spc = "none"

\* --------------------------------------------------- truncation: actions

TruncInit ==
  /\ text \in Texts
  /\ limit \in (-1)..MaxLimit
  /\ truncator = "none"
  /\ retText = <<>>
  /\ retTokens = 0
  /\ BudgetIdle
  /\ StoreIdle
  /\ CtxIdle
  /\ SearchIdle
  /\ ServicesIdle

\* bfm.TruncateToLimit(text, limit), bfm.tokenBudget == nil
CallTruncateToLimit ==
  /\ truncator = "none"
  /\ LET r == TruncateToLimit(text, limit)
     IN  /\ retText' = r.text
         /\ retTokens' = r.tokens
  /\ truncator' = "base"
  /\ UNCHANGED <<text, limit, notTrunc>>

\* tbm.TruncateToTokenLimit(text, component), the component's allocation
\* being limit
CallTruncateToTokenLimit ==
  /\ truncator = "none"
  /\ LET r == TruncateToTokenLimit(text, limit)
     IN  /\ retText' = r.text
         /\ retTokens' = r.tokens
  /\ truncator' = "budget"
  /\ UNCHANGED <<text, limit, notTrunc>>

TruncNext == CallTruncateToLimit \/ CallTruncateToTokenLimit

SpecTrunc == TruncInit /\ [][TruncNext]_vars

\* c.Count(text) called on its own; the estimate is kept in retTokens
CallCount ==
  /\ truncator = "none"
  /\ retTokens' = Count(text)
  /\ truncator' = "count"
  /\ UNCHANGED <<text, limit, retText, notTrunc>>

CountNext == CallCount

SpecCount == TruncInit /\ [][CountNext]_vars

\* ---------------------------------------------- budget manager: actions

BudgetInit ==
  /\ BudgetIdle
  /\ TruncIdle
  /\ StoreIdle
  /\ CtxIdle
  /\ SearchIdle
  /\ ServicesIdle

\* NewTokenBudgetManager(maxTokens, percentages): the first manager the
\* caller builds; on an error the caller holds nil.  The arguments Validate
\* rejects are taken together, by the error they are rejected with.
NewTokenBudgetManager ==
  /\ ~manager.exists
  /\ \E maxTokens \in (-1)..MaxTotal :
       \/ /\ maxTokens <= 0
          /\ budgetErr' = "maxTokens"
          /\ manager' = NilManager
       \/ /\ maxTokens > 0
          /\ \E err \in ValidateErrors :
               /\ budgetErr' = err
               /\ manager' = NilManager
       \/ /\ maxTokens > 0
          /\ \E percentages \in ValidPercentages \cup {DefaultTokenPercentages} :
               /\ Validate(percentages) = "nil"
               /\ budgetErr' = "nil"
               /\ manager' = [exists |-> TRUE, maxTokens |-> maxTokens,
                               percentages |-> percentages]
  /\ allocated' = {}
  /\ UNCHANGED notBudget

\* tbm.UpdatePercentages(newPercentages): the budget is replaced, so the map
\* returned for the old one is dropped
UpdatePercentages ==
  /\ manager.exists
  /\ \/ \E err \in ValidateErrors :
          /\ budgetErr' = err
          /\ UNCHANGED <<manager, allocated>>
     \/ \E newPercentages \in ValidPercentages :
          /\ budgetErr' = "nil"
          /\ manager' = [manager EXCEPT !.percentages = newPercentages]
          /\ allocated' = {}
  /\ UNCHANGED notBudget

\* tbm.GetAllocatedTokens()
GetAllocatedTokens ==
  /\ manager.exists
  /\ allocated' = {AllocateTokens(manager.maxTokens, manager.percentages)}
  /\ UNCHANGED <<manager, budgetErr, notBudget>>

BudgetNext == NewTokenBudgetManager \/ UpdatePercentages \/ GetAllocatedTokens

SpecBudget == BudgetInit /\ [][BudgetNext]_vars

\* ----------------------------------------------- content store: actions

\* The state NewBaseFileManager leaves: MkdirAll on the parent directory has
\* succeeded or has failed and been ignored, the file may be there already,
\* nothing is cached.
StoreInit ==
  /\ dirExists \in BOOLEAN
  /\ fileExists \in (IF dirExists THEN BOOLEAN ELSE {FALSE})
  /\ fileData \in (IF fileExists THEN FileTexts ELSE {<<>>})
  /\ fileModTime = (IF fileExists THEN 1 ELSE 0)
  /\ clock = (IF fileExists THEN 2 ELSE 1)
  /\ current = <<>> /\ lastModTime = 0 /\ currentVer = 0
  /\ pc = [t \in Threads |-> "idle"]
  /\ content = [t \in Threads |-> <<>>]
  /\ data = [t \in Threads |-> <<>>]
  /\ ret = [t \in Threads |-> NoReturn]
  /\ ver = [t \in Threads |-> 0]
  /\ callCache = <<<<>>, 0>>
  /\ fresh = NoText
  /\ extPending = FALSE
  /\ expect = NoText
  /\ seen = NoFile
  /\ dirBefore = dirExists
  /\ loaded = FALSE
  /\ TruncIdle
  /\ BudgetIdle
  /\ CtxIdle
  /\ SearchIdle
  /\ ServicesIdle

AllIdle == \A t \in Threads : pc[t] = "idle"

\* the writes that calls already under way will still make
PendingWrites == Cardinality({t \in Threads : pc[t] \in {"svMkdirAll", "svWriteFile"}})

\* the caller returns to its own code
Return(t, r) ==
  /\ pc' = [pc EXCEPT ![t] = "idle"]
  /\ ret' = [ret EXCEPT ![t] = r]
  /\ content' = [content EXCEPT ![t] = <<>>]
  /\ data' = [data EXCEPT ![t] = <<>>]
  /\ ver' = [ver EXCEPT ![t] = 0]

Goto(t, label) ==
  /\ pc' = [pc EXCEPT ![t] = label]
  /\ UNCHANGED <<content, data, ret, ver>>

\* a caller enters GetCurrent
CallGetCurrent(t) ==
  /\ pc[t] = "idle"
  /\ Goto(t, "gcIsModified")
  /\ expect' = [valid |-> extPending /\ fileExists, text |-> fileData]
  /\ extPending' = FALSE
  /\ seen' = [exists |-> fileExists, text |-> fileData]
  /\ UNCHANGED <<fileVars, cacheVars, callCache, fresh, dirBefore, loaded, notStore>>

\* GetCurrent: bfm.IsModified(), that is GetModTime (os.Stat) and
\* modTime.After(bfm.lastModTime); a failed Stat counts as not modified
GcIsModified(t) ==
  /\ pc[t] = "gcIsModified"
  /\ IF fileExists /\ fileModTime > lastModTime
     THEN Goto(t, "ldExists")
     ELSE Goto(t, "gcEmpty")
  /\ UNCHANGED <<fileVars, cacheVars, historyVars, auditVars, notStore>>

\* GetCurrent: || bfm.current == ""
GcEmpty(t) ==
  /\ pc[t] = "gcEmpty"
  /\ IF current = <<>> THEN Goto(t, "ldExists") ELSE Goto(t, "gcReturn")
  /\ UNCHANGED <<fileVars, cacheVars, historyVars, auditVars, notStore>>

\* Load: if !bfm.Exists() return "", FileNotFoundError
LdExists(t) ==
  /\ pc[t] = "ldExists"
  /\ IF fileExists THEN Goto(t, "ldReadFile") ELSE Goto(t, "gcReturn")
  /\ UNCHANGED <<fileVars, cacheVars, historyVars, auditVars, notStore>>

\* Load: os.ReadFile; it fails when the file has gone since Exists
LdReadFile(t) ==
  /\ pc[t] = "ldReadFile"
  /\ IF fileExists
     THEN /\ pc' = [pc EXCEPT ![t] = "ldSetCurrent"]
          /\ data' = [data EXCEPT ![t] = fileData]
          /\ ver' = [ver EXCEPT ![t] = fileModTime]
          /\ UNCHANGED <<content, ret>>
     ELSE Goto(t, "gcReturn")
  /\ UNCHANGED <<fileVars, cacheVars, historyVars, auditVars, notStore>>

\* Load: content := strings.TrimSpace(string(data)); bfm.current = content
LdSetCurrent(t) ==
  /\ pc[t] = "ldSetCurrent"
  /\ current' = TrimSpace(data[t])
  /\ currentVer' = ver[t]
  /\ loaded' = TRUE
  /\ Goto(t, "ldStat")
  /\ UNCHANGED <<lastModTime, fileVars, historyVars, seen, dirBefore, notStore>>

\* Load: os.Stat and bfm.lastModTime = stat.ModTime(), then return content;
\* GetCurrent returns it
LdStat(t) ==
  /\ pc[t] = "ldStat"
  /\ lastModTime' = (IF fileExists THEN fileModTime ELSE lastModTime)
  /\ Return(t, [op |-> "GetCurrent", text |-> TrimSpace(data[t]), err |-> FALSE])
  /\ UNCHANGED <<current, currentVer, fileVars, historyVars, auditVars, notStore>>

\* GetCurrent: return bfm.current (nothing to reload, or Load failed)
GcReturn(t) ==
  /\ pc[t] = "gcReturn"
  /\ Return(t, [op |-> "GetCurrent", text |-> current, err |-> FALSE])
  /\ UNCHANGED <<fileVars, cacheVars, historyVars, auditVars, notStore>>

\* a caller enters Update(newText), which is Save(newText)
CallUpdate(t, newText) ==
  /\ pc[t] = "idle"
  /\ clock + PendingWrites <= MaxClock
  /\ pc' = [pc EXCEPT ![t] = "svMkdirAll"]
  /\ content' = [content EXCEPT ![t] = newText]
  /\ callCache' = <<current, lastModTime>>
  /\ fresh' = NoText
  /\ UNCHANGED <<data, ret, ver, extPending, expect, fileVars, cacheVars, auditVars, notStore>>

\* Save: os.MkdirAll(dir); an existing directory is left as it is, a missing
\* one is created or the call fails
SvMkdirAll(t) ==
  /\ pc[t] = "svMkdirAll"
  /\ \/ /\ dirExists' = TRUE
        /\ Goto(t, "svWriteFile")
     \/ /\ ~dirExists
        /\ UNCHANGED dirExists
        /\ Return(t, [op |-> "Update", text |-> <<>>, err |-> TRUE])
  /\ UNCHANGED <<fileExists, fileData, fileModTime, clock, cacheVars, historyVars, auditVars, notStore>>

\* Save that refreshes the cached text before it writes, so a failed write
\* leaves the new text cached
SvWriteFileCacheFirst(t) ==
  /\ pc[t] = "svWriteFile"
  /\ current' = content[t]
  /\ \/ /\ fileExists' = TRUE
        /\ fileData' = content[t]
        /\ fileModTime' = clock
        /\ clock' = clock + 1
        /\ pc' = [pc EXCEPT ![t] = "svSetCurrent"]
        /\ ver' = [ver EXCEPT ![t] = clock]
        /\ extPending' = FALSE
        /\ expect' = NoText
        /\ UNCHANGED <<content, data, ret>>
     \/ /\ Return(t, [op |-> "Update", text |-> <<>>, err |-> TRUE])
        /\ UNCHANGED <<fileExists, fileData, fileModTime, clock, extPending, expect>>
  /\ UNCHANGED <<dirExists, lastModTime, currentVer, callCache, fresh, auditVars, notStore>>

\* Save: os.WriteFile; it writes the file, stamped with the clock, or fails
\* leaving the file as it was
SvWriteFile(t) ==
  /\ pc[t] = "svWriteFile"
  /\ \/ /\ fileExists' = TRUE
        /\ fileData' = content[t]
        /\ fileModTime' = clock
        /\ clock' = clock + 1
        /\ pc' = [pc EXCEPT ![t] = "svSetCurrent"]
        /\ ver' = [ver EXCEPT ![t] = clock]
        /\ extPending' = FALSE
        /\ expect' = NoText
        /\ UNCHANGED <<content, data, ret>>
     \/ /\ Return(t, [op |-> "Update", text |-> <<>>, err |-> TRUE])
        /\ UNCHANGED <<fileExists, fileData, fileModTime, clock, extPending, expect>>
  /\ UNCHANGED <<dirExists, cacheVars, callCache, fresh, auditVars, notStore>>

\* Save: bfm.current = content
SvSetCurrent(t) ==
  /\ pc[t] = "svSetCurrent"
  /\ current' = content[t]
  /\ currentVer' = ver[t]
  /\ loaded' = TRUE
  /\ Goto(t, "svStat")
  /\ UNCHANGED <<lastModTime, fileVars, historyVars, seen, dirBefore, notStore>>

\* Save that returns without refreshing the cached modification time
SvStatSkipped(t) ==
  /\ pc[t] = "svStat"
  /\ fresh' = [valid |-> TRUE, text |-> content[t]]
  /\ Return(t, [op |-> "Update", text |-> <<>>, err |-> FALSE])
  /\ UNCHANGED <<cacheVars, fileVars, callCache, extPending, expect, auditVars, notStore>>

\* Save: os.Stat and bfm.lastModTime = stat.ModTime(), then return nil
SvStat(t) ==
  /\ pc[t] = "svStat"
  /\ lastModTime' = (IF fileExists THEN fileModTime ELSE lastModTime)
  /\ fresh' = [valid |-> TRUE, text |-> content[t]]
  /\ Return(t, [op |-> "Update", text |-> <<>>, err |-> FALSE])
  /\ UNCHANGED <<current, currentVer, fileVars, callCache, extPending, expect, auditVars, notStore>>

\* another process writes the file, which advances its modification time
ExternalWrite(newText) ==
  /\ dirExists
  /\ clock + PendingWrites <= MaxClock
  /\ fileExists' = TRUE
  /\ fileData' = newText
  /\ fileModTime' = clock
  /\ clock' = clock + 1
  /\ extPending' = TRUE
  /\ expect' = NoText
  /\ fresh' = NoText
  /\ UNCHANGED <<dirExists, cacheVars, callerVars, callCache, auditVars, notStore>>

\* another process removes the file
ExternalRemove ==
  /\ fileExists
  /\ fileExists' = FALSE
  /\ fileData' = <<>>
  /\ fileModTime' = 0
  /\ extPending' = FALSE
  /\ expect' = NoText
  /\ fresh' = NoText
  /\ UNCHANGED <<dirExists, clock, cacheVars, callerVars, callCache, auditVars, notStore>>

\* one step of caller t
Step(t) ==
  \/ CallGetCurrent(t) \/ GcIsModified(t) \/ GcEmpty(t) \/ GcReturn(t)
  \/ LdExists(t) \/ LdReadFile(t) \/ LdSetCurrent(t) \/ LdStat(t)
  \/ (\E newText \in FileTexts : CallUpdate(t, newText))
  \/ SvMkdirAll(t) \/ SvWriteFile(t) \/ SvSetCurrent(t) \/ SvStat(t)

External == (\E newText \in FileTexts : ExternalWrite(newText)) \/ ExternalRemove

\* other processes touch the file while no call is under way
QuietExternal == AllIdle /\ External

\* One caller; other processes touch the file only between its calls.
StoreNext == Step(1) \/ QuietExternal

SpecStore == StoreInit /\ [][StoreNext]_vars

\* One caller; other processes touch the file at any time.
StoreExtNext == Step(1) \/ External

SpecStoreExt == StoreInit /\ [][StoreExtNext]_vars

\* The state before NewBaseFileManager has run: the parent directory is
\* there or not, the file may be there if the directory is.
StoreNewInit ==
  /\ dirExists \in BOOLEAN
  /\ fileExists \in (IF dirExists THEN BOOLEAN ELSE {FALSE})
  /\ fileData \in (IF fileExists THEN FileTexts ELSE {<<>>})
  /\ fileModTime = (IF fileExists THEN 1 ELSE 0)
  /\ clock = (IF fileExists THEN 2 ELSE 1)
  /\ current = <<>> /\ lastModTime = 0 /\ currentVer = 0
  /\ pc = [t \in Threads |-> IF t = 1 THEN "new" ELSE "idle"]
  /\ content = [t \in Threads |-> <<>>]
  /\ data = [t \in Threads |-> <<>>]
  /\ ret = [t \in Threads |-> NoReturn]
  /\ ver = [t \in Threads |-> 0]
  /\ callCache = <<<<>>, 0>>
  /\ fresh = NoText
  /\ extPending = FALSE
  /\ expect = NoText
  /\ seen = NoFile
  /\ dirBefore = dirExists
  /\ loaded = FALSE
  /\ TruncIdle
  /\ BudgetIdle
  /\ CtxIdle
  /\ SearchIdle
  /\ ServicesIdle

\* NewBaseFileManager: os.MkdirAll(filepath.Dir(filePath)), its error
\* ignored; an existing directory is left as it is, a missing one is created
\* or the call fails
NewBaseFileManager(t) ==
  /\ pc[t] = "new"
  /\ \/ dirExists' = TRUE
     \/ ~dirExists /\ UNCHANGED dirExists
  /\ Goto(t, "idle")
  /\ UNCHANGED <<fileExists, fileData, fileModTime, clock, cacheVars, historyVars,
                 auditVars, notStore>>

\* One caller that constructs the manager and then uses it.
StoreNewNext == NewBaseFileManager(1) \/ Step(1) \/ QuietExternal

SpecStoreNew == StoreNewInit /\ [][StoreNewNext]_vars

\* Two callers sharing the manager; nothing else touches the file.
StoreConcNext == \E t \in Threads : Step(t)

SpecStoreConc == StoreInit /\ [][StoreConcNext]_vars

\* --------------------------------- the per-category limited read: actions

\* the budget managers a category manager is given: none, or one with the
\* default percentages
AttachedManagers ==
  {NilManager} \cup
  {[exists |-> TRUE, maxTokens |-> m, percentages |-> DefaultTokenPercentages] : m \in 1..MaxTotal}

\* a category manager with its current text (text), with or without a budget
\* manager, and the ceiling its caller will pass (limit)
LimitedInit ==
  /\ text \in Texts
  /\ limit \in (-1)..MaxLimit
  /\ truncator = "none"
  /\ retText = <<>>
  /\ retTokens = 0
  /\ manager \in AttachedManagers
  /\ budgetErr = "nil"
  /\ allocated = {}
  /\ StoreIdle
  /\ CtxIdle
  /\ SearchIdle
  /\ ServicesIdle

\* cm.GetCurrentWithTokenLimit(limit) / wm.GetCurrentWithTokenLimit(limit)
CallGetCurrentWithTokenLimit ==
  /\ truncator = "none"
  /\ \E component \in {"character", "worldview"} :
       /\ LET r == GetCurrentWithTokenLimit(text, manager, component, limit)
          IN  /\ retText' = r.text
              /\ retTokens' = r.tokens
       /\ truncator' = component
  /\ UNCHANGED <<text, limit, notTrunc>>

\* ir.GetSummaryWithTokenLimit(limit)
CallGetSummaryWithTokenLimit ==
  /\ truncator = "none"
  /\ LET r == GetSummaryWithTokenLimit(text, manager, limit)
     IN  /\ retText' = r.text
         /\ retTokens' = r.tokens
  /\ truncator' = "index"
  /\ UNCHANGED <<text, limit, notTrunc>>

LimitedNext == CallGetCurrentWithTokenLimit \/ CallGetSummaryWithTokenLimit

SpecLimited == LimitedInit /\ [][LimitedNext]_vars

\* ------------------------------------------- context assembly: actions

\* the text a category's file holds in the model: two CJK words
CategoryText == <<"c", " ", "c">>

\* what the novel directory holds for a category
Sources ==
  {[status |-> "absent", text |-> <<>>],
   [status |-> "failed", text |-> CategoryText],
   [status |-> "ok", text |-> <<>>],
   [status |-> "ok", text |-> CategoryText]}

\* what the novel directory holds under the name character.md: nothing, a
\* file, or a directory with a character.md in it that can or cannot be read
CharacterSources ==
  {[layout |-> "absent", text |-> <<>>],
   [layout |-> "file", text |-> CategoryText],
   [layout |-> "nested", text |-> CategoryText],
   [layout |-> "unreadable", text |-> CategoryText]}

\* the percentages the builder is called with: the default ones, two
\* components sharing the budget, and fractions that sum to 0
CtxPercentages ==
  {DefaultTokenPercentages,
   [plan |-> 0, character |-> 0, worldview |-> 5000, chapters |-> 5000, index |-> 0],
   [c \in Components |-> 0]}

CtxInit ==
  /\ files \in [title : Sources, index : Sources, worldview : Sources,
                character : CharacterSources, chapter : Sources, plan : Sources]
  /\ built = "none"
  /\ ctx = EmptyContext
  /\ ctxErr = "nil"
  /\ formatter = "none"
  /\ formatted = <<>>
  /\ TruncIdle
  /\ BudgetIdle
  /\ StoreIdle
  /\ SearchIdle
  /\ ServicesIdle

\* cb.BuildTokenAwareContext(tokenPercentages, maxTokens): nil and an error
\* when the budget manager cannot be made, else the context and nil
BuildTokenAwareContext ==
  /\ built = "none"
  /\ \E maxTokens \in 0..MaxTotal, percentages \in CtxPercentages :
       IF maxTokens <= 0 \/ Validate(percentages) # "nil"
       THEN /\ built' = "failed"
            /\ ctxErr' = "budget"
            /\ budgetErr' = (IF maxTokens <= 0 THEN "maxTokens" ELSE Validate(percentages))
            /\ UNCHANGED <<ctx, files, manager>>
       ELSE /\ manager' = [exists |-> TRUE, maxTokens |-> maxTokens, percentages |-> percentages]
            /\ ctx' = TokenAwareContext(files, manager')
            /\ files' = [files EXCEPT !.character = CharacterAfterBuild(@)]
            /\ built' = "tokenAware"
            /\ UNCHANGED <<ctxErr, budgetErr>>
  /\ UNCHANGED <<formatter, formatted, allocated, truncVars, storeVars, searchVars, serviceVars>>

\* cb.BuildFullContext()
BuildFullContext ==
  /\ built = "none"
  /\ ctx' = FullContext(files)
  /\ files' = [files EXCEPT !.character = CharacterAfterBuild(@)]
  /\ built' = "full"
  /\ UNCHANGED <<ctxErr, formatter, formatted, notCtx>>

\* cb.FormatContext(ctx)
CallFormatContext ==
  /\ built \in {"tokenAware", "full"}
  /\ formatter = "none"
  /\ formatted' = FormatContext(ctx)
  /\ formatter' = "FormatContext"
  /\ UNCHANGED <<files, built, ctx, ctxErr, notCtx>>

\* nc.FormatContext() on the NovelContext that holds the same sections, its
\* Index being the summary as GenerateContextWithBudget sets it
CallNovelFormatContext ==
  /\ built \in {"tokenAware", "full"}
  /\ formatter = "none"
  /\ formatted' = NovelFormatContext(
                    [Title |-> ctx.Title, Summary |-> ctx.Summary, Worldview |-> ctx.Worldview,
                     Characters |-> ctx.Characters, Chapters |-> ctx.Chapter, Plan |-> ctx.Plan,
                     Index |-> ctx.Summary])
  /\ formatter' = "NovelFormatContext"
  /\ UNCHANGED <<files, built, ctx, ctxErr, notCtx>>

\* tag.aggregateComponents(components) on the components map that holds the
\* same sections
CallAggregateComponents ==
  /\ built \in {"tokenAware", "full"}
  /\ formatter = "none"
  /\ formatted' = aggregateComponents(
                    [k \in {"worldview", "characters", "plans", "chapters", "index"} |->
                       CASE k = "worldview" -> ctx.Worldview
                         [] k = "characters" -> ctx.Characters
                         [] k = "plans" -> ctx.Plan
                         [] k = "chapters" -> ctx.Chapter
                         [] k = "index" -> ctx.Summary])
  /\ formatter' = "aggregateComponents"
  /\ UNCHANGED <<files, built, ctx, ctxErr, notCtx>>

CtxNext ==
  \/ BuildTokenAwareContext
  \/ BuildFullContext
  \/ CallFormatContext
  \/ CallNovelFormatContext
  \/ CallAggregateComponents

SpecContext == CtxInit /\ [][CtxNext]_vars

\* ------------------------------------- the codepoint binary search, stepwise

\* the lines the search is run on: a line holds no newline; CJK, Latin,
\* punctuation and space give estimates that rise and fall along a line
SearchLines ==
  UNION {IF \A i \in 1..Len(t) : t[i] \in {"c", "a", ",", " "} THEN {t} ELSE {} : t \in Texts}

\* the arguments of truncateLineByCharacters: any such line, any limit
SearchInit ==
  /\ sLine \in SearchLines
  /\ sLimit \in (-1)..MaxLimit
  /\ left = 0 /\ right = 0 /\ bestEnd = 0
  /\ spc = "none"
  /\ TruncIdle
  /\ BudgetIdle
  /\ StoreIdle
  /\ CtxIdle
  /\ ServicesIdle

\* truncateLineByCharacters up to the loop: limit <= 0 returns "" at once,
\* otherwise left, right := 0, len(runes) and bestEnd := 0
CallTruncateLineByCharacters ==
  /\ spc = "none"
  /\ IF sLimit <= 0
     THEN /\ spc' = "done"
          /\ UNCHANGED <<left, right, bestEnd>>
     ELSE /\ spc' = "loop"
          /\ left' = 0
          /\ right' = Len(sLine)
          /\ bestEnd' = 0
  /\ UNCHANGED <<sLine, sLimit, notSearch>>

\* a loop step that keeps left at mid where the code moves it past mid
SearchStepNoAdvance ==
  /\ spc = "loop"
  /\ left <= right
  /\ LET mid == (left + right) \div 2
     IN  IF mid = 0
         THEN /\ left' = mid + 1
              /\ UNCHANGED <<right, bestEnd>>
         ELSE IF Count(Take(sLine, mid)) <= sLimit
              THEN /\ bestEnd' = mid
                   /\ left' = mid
                   /\ UNCHANGED right
              ELSE /\ right' = mid - 1
                   /\ UNCHANGED <<left, bestEnd>>
  /\ UNCHANGED <<sLine, sLimit, spc, notSearch>>

\* one iteration of "for left <= right"
SearchStep ==
  /\ spc = "loop"
  /\ left <= right
  /\ LET mid == (left + right) \div 2
     IN  IF mid = 0
         THEN /\ left' = mid + 1
              /\ UNCHANGED <<right, bestEnd>>
         ELSE IF Count(Take(sLine, mid)) <= sLimit
              THEN /\ bestEnd' = mid
                   /\ left' = mid + 1
                   /\ UNCHANGED right
              ELSE /\ right' = mid - 1
                   /\ UNCHANGED <<left, bestEnd>>
  /\ UNCHANGED <<sLine, sLimit, spc, notSearch>>

\* the loop is left and string(runes[:bestEnd]) (or "") is returned
SearchExit ==
  /\ spc = "loop"
  /\ left > right
  /\ spc' = "done"
  /\ UNCHANGED <<sLine, sLimit, left, right, bestEnd, notSearch>>

SearchNext == CallTruncateLineByCharacters \/ SearchStep \/ SearchExit

\* The call runs on one goroutine with nothing to wait for: a step that can
\* be taken is taken.
SpecSearch == SearchInit /\ [][SearchNext]_vars /\ WF_vars(SearchNext)

\* ------------------------------------------ PlannerContentManager: actions

\* the chapters plans are made for; 0 is the empty chapter name
PlanChapters == {1, 2}
PlanTitles == {"p"}
PlanContents == {"x", "y"}

\* the PlanEntry values
PlanEntries ==
  [Chapter : PlanChapters, Plan : PlanTitles, Content : PlanContents, Finished : BOOLEAN]

\* the index of the first entry of the chapter in ps, 0 when there is none
IndexOf(ps, chapter) ==
  IF \E i \in 1..Len(ps) : ps[i].Chapter = chapter
  THEN CHOOSE i \in 1..Len(ps) :
         /\ ps[i].Chapter = chapter
         /\ \A j \in 1..(i - 1) : ps[j].Chapter # chapter
  ELSE 0

\* append(state.Plans[:i], state.Plans[i+1:]...)
RemoveAt(ps, i) == SubSeq(ps, 1, i - 1) \o SubSeq(ps, i + 1, Len(ps))

RECURSIVE SortByChapter(_)
\* sort.Slice by Chapter
SortByChapter(ps) ==
  IF ps = <<>> THEN <<>>
  ELSE LET i == CHOOSE k \in 1..Len(ps) : \A j \in 1..Len(ps) : ps[k].Chapter <= ps[j].Chapter
       IN  <<ps[i]>> \o SortByChapter(RemoveAt(ps, i))

\* pcm.Load(): load() again when IsModified, then pcm.state
LoadedPlans == IF plannerStale THEN plannerFile ELSE state

\* The manager NewPlannerContentManager leaves: load() has read planner.json,
\* which holds no plan or one.
PlannerInit ==
  /\ plannerFile \in {<<>>} \cup {<<e>> : e \in PlanEntries}
  /\ state = plannerFile
  /\ plannerStale = FALSE
  /\ plannerOp = "none"
  /\ plannerErr = "nil"
  /\ plannerRet = <<>>
  /\ TruncIdle
  /\ BudgetIdle
  /\ StoreIdle
  /\ CtxIdle
  /\ SearchIdle
  /\ RetryIdle
  /\ QueueIdle

\* pcm.Save(ps), ps being pcm.state itself with the caller's change made in
\* it: BaseFileManager.Save writes the file and pcm.state = ps, or the write
\* fails and the error is returned
SavePlans(ps) ==
  /\ state' = ps
  /\ plannerStale' = FALSE
  /\ \/ /\ plannerFile' = ps
        /\ plannerErr' = "nil"
     \/ /\ plannerErr' = "write"
        /\ UNCHANGED plannerFile

\* the call returns before Save is reached
ReturnEarly(err) ==
  /\ state' = LoadedPlans
  /\ plannerStale' = FALSE
  /\ plannerErr' = err
  /\ UNCHANGED plannerFile

\* pcm.UpsertPlan(chapter, plan, content, finished)
UpsertPlan(chapter, plan, newContent, finished) ==
  /\ plannerOp' = "UpsertPlan"
  /\ IF chapter = 0
     THEN /\ plannerErr' = "invalid"
          /\ UNCHANGED <<state, plannerFile, plannerStale>>
     ELSE LET ps == LoadedPlans
              i == IndexOf(ps, chapter)
          IN  IF i # 0
              THEN SavePlans([ps EXCEPT ![i].Plan = plan, ![i].Content = newContent,
                                        ![i].Finished = finished])
              ELSE SavePlans(Append(ps, [Chapter |-> chapter, Plan |-> plan,
                                         Content |-> newContent, Finished |-> FALSE]))
  /\ plannerRet' = <<>>
  /\ UNCHANGED notPlanner

\* pcm.DeletePlan(chapter)
DeletePlan(chapter) ==
  /\ plannerOp' = "DeletePlan"
  /\ LET ps == LoadedPlans
         i == IndexOf(ps, chapter)
     IN  IF i # 0 THEN SavePlans(RemoveAt(ps, i)) ELSE ReturnEarly("nil")
  /\ plannerRet' = <<>>
  /\ UNCHANGED notPlanner

\* pcm.UpdatePlanContent(chapter, content)
UpdatePlanContent(chapter, newContent) ==
  /\ plannerOp' = "UpdatePlanContent"
  /\ LET ps == LoadedPlans
         i == IndexOf(ps, chapter)
     IN  IF i # 0 THEN SavePlans([ps EXCEPT ![i].Content = newContent])
         ELSE ReturnEarly("notFound")
  /\ plannerRet' = <<>>
  /\ UNCHANGED notPlanner

\* pcm.SetPlanFinished(chapter, finished)
SetPlanFinished(chapter, finished) ==
  /\ plannerOp' = "SetPlanFinished"
  /\ LET ps == LoadedPlans
         i == IndexOf(ps, chapter)
     IN  IF i # 0 THEN SavePlans([ps EXCEPT ![i].Finished = finished])
         ELSE ReturnEarly("notFound")
  /\ plannerRet' = <<>>
  /\ UNCHANGED notPlanner

\* what GetPlan(chapter) returns for the plans ps: the plan and true, or ""
\* and false
PlanOf(ps, chapter) ==
  IF IndexOf(ps, chapter) # 0 THEN <<ps[IndexOf(ps, chapter)].Plan, TRUE>> ELSE <<"", FALSE>>

\* pcm.GetPlan(chapter)
GetPlan(chapter) ==
  /\ plannerOp' = "GetPlan"
  /\ plannerRet' = PlanOf(LoadedPlans, chapter)
  /\ ReturnEarly("nil")
  /\ UNCHANGED notPlanner

\* pcm.GetAllPlans()
GetAllPlans ==
  /\ plannerOp' = "GetAllPlans"
  /\ plannerRet' = SortByChapter(LoadedPlans)
  /\ ReturnEarly("nil")
  /\ UNCHANGED notPlanner

\* another process rewrites planner.json, which advances its modification
\* time
PlannerExternalWrite ==
  /\ \E ps \in {<<>>} \cup {<<e>> : e \in PlanEntries} :
       /\ ps # plannerFile
       /\ plannerFile' = ps
  /\ plannerStale' = TRUE
  /\ UNCHANGED <<state, plannerOp, plannerErr, plannerRet, notPlanner>>

\* a call that changes the plans
PlannerMutation ==
  \/ \E chapter \in {0} \cup PlanChapters, plan \in PlanTitles,
        newContent \in PlanContents, finished \in BOOLEAN :
       UpsertPlan(chapter, plan, newContent, finished)
  \/ \E chapter \in PlanChapters : DeletePlan(chapter)
  \/ \E chapter \in PlanChapters, newContent \in PlanContents :
       UpdatePlanContent(chapter, newContent)
  \/ \E chapter \in PlanChapters, finished \in BOOLEAN : SetPlanFinished(chapter, finished)

PlannerNext ==
  \/ PlannerMutation
  \/ \E chapter \in PlanChapters : GetPlan(chapter)
  \/ GetAllPlans
  \/ PlannerExternalWrite

SpecPlanner == PlannerInit /\ [][PlannerNext]_vars

\* ----------------------------------------------- ExecuteWithRetry: steps

\* DefaultRetryConfig().MaxRetries
DefaultMaxRetries == 3

\* the config arguments: nil, or a RetryConfig
RetryConfigs ==
  {NilConfig} \cup [isNil : {FALSE}, MaxRetries : (-1)..MaxRetry, delayed : BOOLEAN]

\* the config after "if config == nil { config = DefaultRetryConfig() }"
EffectiveConfig ==
  IF retryConfig.isNil
  THEN [isNil |-> FALSE, MaxRetries |-> DefaultMaxRetries, delayed |-> TRUE]
  ELSE retryConfig

\* maxAttempts := config.MaxRetries + 1
maxAttempts == EffectiveConfig.MaxRetries + 1

RetryInit ==
  /\ retryConfig \in RetryConfigs
  /\ attempt = 0
  /\ lastErr = "nil"
  /\ rpc = "idle"
  /\ ctxDone \in BOOLEAN
  /\ timerDone = FALSE
  /\ retryRet = "none"
  /\ executeCalls = 0
  /\ retryClosed = FALSE
  /\ cancelledInWait = FALSE
  /\ TruncIdle
  /\ BudgetIdle
  /\ StoreIdle
  /\ CtxIdle
  /\ SearchIdle
  /\ PlannerIdle
  /\ QueueIdle

\* the call is entered: attempt := 1
CallExecuteWithRetry ==
  /\ rpc = "idle"
  /\ attempt' = 1
  /\ rpc' = "loop"
  /\ UNCHANGED <<retryConfig, lastErr, ctxDone, timerDone, retryRet, executeCalls,
                 retryClosed, cancelledInWait, notRetry>>

\* "for ...; attempt <= maxAttempts" and the head of the body: from the
\* second attempt on calculateDelay and OnRetry, and waitWithContext, which
\* returns nil at once for a delay <= 0
RetryLoop ==
  /\ rpc = "loop"
  /\ IF attempt > maxAttempts
     THEN /\ rpc' = "done"
          /\ retryRet' = "failed"
          /\ UNCHANGED timerDone
     ELSE IF attempt > 1 /\ EffectiveConfig.delayed
          THEN /\ rpc' = "wait"
               /\ timerDone' = FALSE
               /\ UNCHANGED retryRet
          ELSE /\ rpc' = "execute"
               /\ UNCHANGED <<retryRet, timerDone>>
  /\ UNCHANGED <<retryConfig, attempt, lastErr, ctxDone, executeCalls, retryClosed,
                 cancelledInWait, notRetry>>

\* the timer of time.After(delay) fires
TimerFires ==
  /\ rpc = "wait"
  /\ ~timerDone
  /\ timerDone' = TRUE
  /\ UNCHANGED <<retryConfig, attempt, lastErr, rpc, ctxDone, retryRet, executeCalls,
                 retryClosed, cancelledInWait, notRetry>>

\* the caller's context is cancelled
CancelContext ==
  /\ rpc \in {"loop", "wait", "execute"}
  /\ ~ctxDone
  /\ ctxDone' = TRUE
  /\ cancelledInWait' = (cancelledInWait \/ (rpc = "wait" /\ ~timerDone))
  /\ UNCHANGED <<retryConfig, attempt, lastErr, rpc, timerDone, retryRet, executeCalls,
                 retryClosed, notRetry>>

\* waitWithContext: select takes "case <-time.After(delay)"
WaitElapsed ==
  /\ rpc = "wait"
  /\ timerDone
  /\ rpc' = "execute"
  /\ UNCHANGED <<retryConfig, attempt, lastErr, ctxDone, timerDone, retryRet,
                 executeCalls, retryClosed, cancelledInWait, notRetry>>

\* waitWithContext: select takes "case <-ctx.Done()", and ExecuteWithRetry
\* returns the error
WaitInterrupted ==
  /\ rpc = "wait"
  /\ ctxDone
  /\ rpc' = "done"
  /\ retryRet' = "interrupted"
  /\ retryClosed' = TRUE
  /\ UNCHANGED <<retryConfig, attempt, lastErr, ctxDone, timerDone, executeCalls,
                 cancelledInWait, notRetry>>

\* operation.Execute(ctx) with a success going on to the next attempt like
\* an error that is to be retried
RetryExecuteKeepsGoing ==
  /\ rpc = "execute"
  /\ executeCalls' = executeCalls + 1
  /\ \E err \in {"nil", "retryable", "fatal"} :
       /\ lastErr' = err
       /\ retryClosed' = (retryClosed \/ err \in {"nil", "fatal"})
       /\ IF err = "fatal" \/ attempt >= maxAttempts
          THEN /\ rpc' = "done"
               /\ retryRet' = "failed"
               /\ UNCHANGED attempt
          ELSE /\ rpc' = "loop"
               /\ attempt' = attempt + 1
               /\ UNCHANGED retryRet
  /\ UNCHANGED <<retryConfig, ctxDone, timerDone, cancelledInWait, notRetry>>

\* operation.Execute(ctx) and what follows it: return on success; else
\* lastErr = err, break when ShouldRetry(err) is false or the attempts are
\* used up, else attempt++
RetryExecute ==
  /\ rpc = "execute"
  /\ executeCalls' = executeCalls + 1
  /\ \E err \in {"nil", "retryable", "fatal"} :
       IF err = "nil"
       THEN /\ rpc' = "done"
            /\ retryRet' = "ok"
            /\ retryClosed' = TRUE
            /\ UNCHANGED <<attempt, lastErr>>
       ELSE /\ lastErr' = err
            /\ retryClosed' = (retryClosed \/ err = "fatal")
            /\ IF err = "fatal" \/ attempt >= maxAttempts
               THEN /\ rpc' = "done"
                    /\ retryRet' = "failed"
                    /\ UNCHANGED attempt
               ELSE /\ rpc' = "loop"
                    /\ attempt' = attempt + 1
                    /\ UNCHANGED retryRet
  /\ UNCHANGED <<retryConfig, ctxDone, timerDone, cancelledInWait, notRetry>>

RetryNext ==
  \/ CallExecuteWithRetry
  \/ RetryLoop
  \/ TimerFires
  \/ CancelContext
  \/ WaitElapsed
  \/ WaitInterrupted
  \/ RetryExecute

SpecRetry == RetryInit /\ [][RetryNext]_vars

\* --------------------------------------------------- MessageQueue: steps

\* config.BufferSize, the capacity of the tasks channel
BufferSize == 1

chanVars == <<tasks, tasksClosed, mqCtxDone>>
counterVars == <<completedTasks, failedTasks>>
workerVars == <<wpc, wTask, wAttempt, wStatus>>
waitVars == <<waitPc, pendingRead, processingRead>>
taskHistory == <<processCalls, counted, doneTasks>>

\* The queue New and Start leave: an open, empty channel and every worker at
\* the select of workerLoop.
QueueInit ==
  /\ mqMaxRetries \in 0..1
  /\ tasks = <<>> /\ tasksClosed = FALSE /\ mqCtxDone = FALSE
  /\ completedTasks = 0 /\ failedTasks = 0 /\ panicked = FALSE
  /\ wpc = [w \in Workers |-> "select"]
  /\ wTask = [w \in Workers |-> 0]
  /\ wAttempt = [w \in Workers |-> 0]
  /\ wStatus = [w \in Workers |-> "idle"]
  /\ enqueued = 0
  /\ shutdownPc = "idle" /\ waitPc = "idle"
  /\ pendingRead = 0 /\ processingRead = 0
  /\ accepted = {} /\ acceptedLate = {}
  /\ processCalls = [k \in Tasks |-> 0]
  /\ counted = [k \in Tasks |-> 0]
  /\ doneTasks = {}
  /\ TruncIdle
  /\ BudgetIdle
  /\ StoreIdle
  /\ CtxIdle
  /\ SearchIdle
  /\ PlannerIdle
  /\ RetryIdle

\* mq.Enqueue(task): one select; of the cases that can proceed one is taken,
\* default when none can.  A send on a closed channel can proceed, and
\* panics.
Enqueue ==
  /\ ~panicked
  /\ enqueued < MaxTasks
  /\ enqueued' = enqueued + 1
  /\ LET task == enqueued + 1
         canSend == tasksClosed \/ Len(tasks) < BufferSize
     IN  \* case <-mq.ctx.Done(): the error "queue closed"
         \/ /\ mqCtxDone
            /\ UNCHANGED <<tasks, panicked, accepted, acceptedLate>>
         \* case mq.tasks <- task
         \/ /\ canSend
            /\ tasksClosed
            /\ panicked' = TRUE
            /\ UNCHANGED <<tasks, accepted, acceptedLate>>
         \/ /\ canSend
            /\ ~tasksClosed
            /\ tasks' = Append(tasks, task)
            /\ accepted' = accepted \cup {task}
            /\ acceptedLate' = (IF shutdownPc # "idle" THEN acceptedLate \cup {task}
                                ELSE acceptedLate)
            /\ UNCHANGED panicked
         \* default: the error "queue full"
         \/ /\ ~mqCtxDone
            /\ ~canSend
            /\ UNCHANGED <<tasks, panicked, accepted, acceptedLate>>
  /\ UNCHANGED <<mqMaxRetries, tasksClosed, mqCtxDone, counterVars, workerVars, shutdownPc,
                 waitVars, taskHistory, notQueue>>

\* workerLoop: the select; of the cases that can proceed one is taken
WorkerSelect(w) ==
  /\ ~panicked
  /\ wpc[w] = "select"
  /\ \/ /\ mqCtxDone
        /\ wpc' = [wpc EXCEPT ![w] = "stopped"]
        /\ UNCHANGED <<tasks, wTask>>
     \/ /\ tasks # <<>>
        /\ wTask' = [wTask EXCEPT ![w] = Head(tasks)]
        /\ tasks' = Tail(tasks)
        /\ wpc' = [wpc EXCEPT ![w] = "setProcessing"]
     \/ /\ tasks = <<>>
        /\ tasksClosed
        /\ wpc' = [wpc EXCEPT ![w] = "stopped"]
        /\ UNCHANGED <<tasks, wTask>>
  /\ UNCHANGED <<mqMaxRetries, tasksClosed, mqCtxDone, counterVars, panicked, wAttempt,
                 wStatus, enqueued, shutdownPc, waitVars, accepted, acceptedLate,
                 taskHistory, notQueue>>

\* workerLoop: worker.setStatus("processing", ...), and processTaskWithRetry
\* is entered with attempt := 0
WorkerSetProcessing(w) ==
  /\ ~panicked
  /\ wpc[w] = "setProcessing"
  /\ wStatus' = [wStatus EXCEPT ![w] = "processing"]
  /\ wAttempt' = [wAttempt EXCEPT ![w] = 0]
  /\ wpc' = [wpc EXCEPT ![w] = "retry"]
  /\ UNCHANGED <<mqMaxRetries, chanVars, counterVars, panicked, wTask, enqueued,
                 shutdownPc, waitVars, accepted, acceptedLate, taskHistory, notQueue>>

\* an iteration of processTaskWithRetry that adds to failedTasks for every
\* attempt that failed
ProcessTaskCountsEachFailure(w) ==
  /\ ~panicked
  /\ wpc[w] = "retry"
  /\ IF wAttempt[w] <= mqMaxRetries
     THEN /\ processCalls' = [processCalls EXCEPT ![wTask[w]] = @ + 1]
          /\ \/ /\ completedTasks' = completedTasks + 1
                /\ counted' = [counted EXCEPT ![wTask[w]] = @ + 1]
                /\ wpc' = [wpc EXCEPT ![w] = "setIdle"]
                /\ UNCHANGED <<failedTasks, wAttempt>>
             \/ /\ wAttempt' = [wAttempt EXCEPT ![w] = @ + 1]
                /\ failedTasks' = failedTasks + 1
                /\ counted' = [counted EXCEPT ![wTask[w]] = @ + 1]
                /\ UNCHANGED <<completedTasks, wpc>>
     ELSE /\ wpc' = [wpc EXCEPT ![w] = "setIdle"]
          /\ UNCHANGED <<processCalls, completedTasks, failedTasks, counted, wAttempt>>
  /\ UNCHANGED <<mqMaxRetries, chanVars, panicked, wTask, wStatus, enqueued, shutdownPc,
                 waitVars, accepted, acceptedLate, doneTasks, notQueue>>

\* processTaskWithRetry: while attempt <= MaxRetries, ProcessTask; a success
\* adds to completedTasks and returns, a failure sleeps (but for the last
\* attempt) and goes on with attempt + 1; after the loop failedTasks is
\* added to
ProcessTask(w) ==
  /\ ~panicked
  /\ wpc[w] = "retry"
  /\ IF wAttempt[w] <= mqMaxRetries
     THEN /\ processCalls' = [processCalls EXCEPT ![wTask[w]] = @ + 1]
          /\ \/ /\ completedTasks' = completedTasks + 1
                /\ counted' = [counted EXCEPT ![wTask[w]] = @ + 1]
                /\ wpc' = [wpc EXCEPT ![w] = "setIdle"]
                /\ UNCHANGED <<failedTasks, wAttempt>>
             \/ /\ wAttempt' = [wAttempt EXCEPT ![w] = @ + 1]
                /\ UNCHANGED <<completedTasks, failedTasks, counted, wpc>>
     ELSE /\ failedTasks' = failedTasks + 1
          /\ counted' = [counted EXCEPT ![wTask[w]] = @ + 1]
          /\ wpc' = [wpc EXCEPT ![w] = "setIdle"]
          /\ UNCHANGED <<processCalls, completedTasks, wAttempt>>
  /\ UNCHANGED <<mqMaxRetries, chanVars, panicked, wTask, wStatus, enqueued, shutdownPc,
                 waitVars, accepted, acceptedLate, doneTasks, notQueue>>

\* workerLoop: processTaskWithRetry has returned; worker.setStatus("idle", "")
WorkerSetIdle(w) ==
  /\ ~panicked
  /\ wpc[w] = "setIdle"
  /\ wStatus' = [wStatus EXCEPT ![w] = "idle"]
  /\ doneTasks' = doneTasks \cup {wTask[w]}
  /\ wTask' = [wTask EXCEPT ![w] = 0]
  /\ wpc' = [wpc EXCEPT ![w] = "select"]
  /\ UNCHANGED <<mqMaxRetries, chanVars, counterVars, panicked, wAttempt, enqueued,
                 shutdownPc, waitVars, accepted, acceptedLate, processCalls, counted,
                 notQueue>>

\* Shutdown: mq.cancel()
ShutdownCancel ==
  /\ ~panicked
  /\ shutdownPc = "idle"
  /\ mqCtxDone' = TRUE
  /\ shutdownPc' = "close"
  /\ UNCHANGED <<mqMaxRetries, tasks, tasksClosed, counterVars, panicked, workerVars,
                 enqueued, waitVars, accepted, acceptedLate, taskHistory, notQueue>>

\* Shutdown: close(mq.tasks)
ShutdownClose ==
  /\ ~panicked
  /\ shutdownPc = "close"
  /\ tasksClosed' = TRUE
  /\ shutdownPc' = "wait"
  /\ UNCHANGED <<mqMaxRetries, tasks, mqCtxDone, counterVars, panicked, workerVars,
                 enqueued, waitVars, accepted, acceptedLate, taskHistory, notQueue>>

\* Shutdown: the select on done and time.After(timeout); done is closed when
\* every workerLoop has returned
ShutdownReturn ==
  /\ ~panicked
  /\ shutdownPc = "wait"
  /\ \/ /\ \A w \in Workers : wpc[w] = "stopped"
        /\ shutdownPc' = "done"
     \/ shutdownPc' = "timeout"
  /\ UNCHANGED <<mqMaxRetries, chanVars, counterVars, panicked, workerVars, enqueued,
                 waitVars, accepted, acceptedLate, taskHistory, notQueue>>

\* WaitUntilComplete is called, or wakes from its sleep: GetStatus reads
\* len(mq.tasks)
WaitReadPending ==
  /\ ~panicked
  /\ waitPc \in {"idle", "sleep"}
  /\ pendingRead' = Len(tasks)
  /\ waitPc' = "processing"
  /\ UNCHANGED <<mqMaxRetries, chanVars, counterVars, panicked, workerVars, enqueued,
                 shutdownPc, processingRead, accepted, acceptedLate, taskHistory, notQueue>>

\* GetStatus: getProcessingCount(), the workers whose status is "processing"
WaitReadProcessing ==
  /\ ~panicked
  /\ waitPc = "processing"
  /\ processingRead' = Cardinality({w \in Workers : wStatus[w] = "processing"})
  /\ waitPc' = "test"
  /\ UNCHANGED <<mqMaxRetries, chanVars, counterVars, panicked, workerVars, enqueued,
                 shutdownPc, pendingRead, accepted, acceptedLate, taskHistory, notQueue>>

\* WaitUntilComplete: break when both numbers are 0, else sleep
WaitTest ==
  /\ ~panicked
  /\ waitPc = "test"
  /\ waitPc' = (IF pendingRead = 0 /\ processingRead = 0 THEN "returned" ELSE "sleep")
  /\ pendingRead' = 0
  /\ processingRead' = 0
  /\ UNCHANGED <<mqMaxRetries, chanVars, counterVars, panicked, workerVars, enqueued,
                 shutdownPc, accepted, acceptedLate, taskHistory, notQueue>>

WorkerStep(w) ==
  \/ WorkerSelect(w)
  \/ WorkerSetProcessing(w)
  \/ ProcessTask(w)
  \/ WorkerSetIdle(w)

QueueNext ==
  \/ Enqueue
  \/ \E w \in Workers : WorkerStep(w)
  \/ ShutdownCancel
  \/ ShutdownClose
  \/ ShutdownReturn
  \/ WaitReadPending
  \/ WaitReadProcessing
  \/ WaitTest

SpecQueue == QueueInit /\ [][QueueNext]_vars

\* ================================================================ claims

\* the elements of a sequence
Range(q) == {q[i] : i \in 1..Len(q)}

\* p is the first Len(p) codepoints of s
IsPrefix(p, s) == Len(p) <= Len(s) /\ Take(s, Len(p)) = p

\* r is whole leading lines of t followed by the first words of the next
\* line of t joined by single spaces
IsWordJoinCut(r, t) ==
  LET lines == SplitLines(t)
  IN  \E j \in 0..(Len(lines) - 1) :
        LET words == Fields(lines[j + 1])
        IN  \E m \in 1..Len(words) :
              r = Join(Append(Take(lines, j), Join(Take(words, m), <<" ">>)), <<"\n">>)

Truncated == truncator # "none"

\* ---- C1
\* C1 (as stated): for every text and every ceiling >= 0 the text either
\* truncator returns has Count(returned text) <= ceiling.
C1_TruncationSafety ==
  (Truncated /\ limit >= 0) => Count(retText) <= limit

\* ---- C2
\* C2 (as stated): the returned text is a literal codepoint prefix of the
\* input.
C2_LiteralPrefix ==
  Truncated => IsPrefix(retText, text)

\* C2 (amended): the returned text is a literal codepoint prefix of the
\* input, or whole leading lines of the input followed by the first words
\* of the next line joined by single spaces.
C2_PrefixOrWordJoin ==
  Truncated => (IsPrefix(retText, text) \/ IsWordJoinCut(retText, text))

\* C2 witness: the word pass cut a line and the result is no literal prefix.
C2_WordCutReached ==
  /\ truncator = "base"
  /\ retText # <<>>
  /\ ~IsPrefix(retText, text)

\* ---- C3
\* C3 (as stated): if Count(text) <= ceiling, either truncator returns
\* exactly (text, Count(text)).
C3_ShortInputUnchanged ==
  (Truncated /\ Count(text) <= limit) => (retText = text /\ retTokens = Count(text))

\* C3 (amended): if Count(text) <= ceiling, TruncateToLimit returns exactly
\* (text, Count(text)) and so does TruncateToTokenLimit when the ceiling is
\* at least 1; with a ceiling of 0 TruncateToTokenLimit returns ("", 0).
C3_ShortInputUnchangedAboveZero ==
  /\ (truncator = "base" /\ Count(text) <= limit)
       => (retText = text /\ retTokens = Count(text))
  /\ (truncator = "budget" /\ Count(text) <= limit /\ limit >= 1)
       => (retText = text /\ retTokens = Count(text))
  /\ (truncator = "budget" /\ limit <= 0)
       => (retText = <<>> /\ retTokens = 0)

\* C3 witness: a text whose estimate equals the ceiling came back unchanged
\* from TruncateToLimit, the estimate being made of several lines.
C3_AtCeilingReached ==
  /\ truncator = "base"
  /\ Count(text) = limit
  /\ limit >= 2
  /\ Len(SplitLines(text)) >= 2
  /\ retText = text

\* ---- C4
\* the categories with a weight above zero
NonZeroWeights(percentages) == {c \in Components : percentages[c] > 0}

C5_NonZeroWeightGetsToken ==
  \A a \in allocated :
    manager.maxTokens >= Cardinality(Components)
      => \A c \in NonZeroWeights(manager.percentages) : a[c] >= 1

\* ---- C6
\* C6: after Update(newText) has succeeded, a GetCurrent that follows with
\* nothing in between returns exactly newText.
C6_CacheFreshness ==
  (pc[1] = "idle" /\ ret[1].op = "GetCurrent" /\ fresh.valid)
    => ret[1].text = fresh.text

\* C6 witness: GetCurrent has returned right after an Update with a
\* whitespace-padded text.
C6_PaddedReadBackReached ==
  /\ pc[1] = "idle"
  /\ ret[1].op = "GetCurrent"
  /\ fresh.valid
  /\ fresh.text = <<" ", "a">>

\* ---- C7
\* C7 (as stated, reading "the new file content" as the content less its
\* surrounding whitespace): the first GetCurrent called after an external
\* write, with no later write or removal, returns what that write left.
C7_StalenessDetected ==
  (pc[1] = "idle" /\ ret[1].op = "GetCurrent" /\ expect.valid)
    => ret[1].text = TrimSpace(expect.text)

\* ---- C8
\* C8: an Update that returns an error leaves the cached text and the cached
\* modification time as they were when it was called, and an Update that
\* returns no error has written its text to the file.
C8_FailedUpdateKeepsCache ==
  /\ (pc[1] = "idle" /\ ret[1].op = "Update" /\ ret[1].err)
       => <<current, lastModTime>> = callCache
  /\ (pc[1] = "idle" /\ ret[1].op = "Update" /\ ~ret[1].err /\ fresh.valid)
       => (fileExists /\ fileData = fresh.text)

\* C8 witness: WriteFile failed (the directory is there) under a manager
\* that had a text cached.
C8_FailedWriteReached ==
  /\ pc[1] = "idle"
  /\ ret[1].op = "Update"
  /\ ret[1].err
  /\ dirExists
  /\ current # <<>>
  /\ lastModTime > 0

\* ---- C9
\* C9 (as stated): whenever no call is under way, the cached text and the
\* cached modification time come from the same version of the file.
C9_CacheOfOneVersion ==
  (AllIdle /\ lastModTime # 0) => currentVer = lastModTime

\* ---- C10
\* C10: every manager that exists holds a positive total and fractions that
\* are all >= 0 and sum to 1.0 within 1%.
C10_ManagerIsValid ==
  manager.exists =>
    /\ manager.maxTokens > 0
    /\ \A c \in Components : manager.percentages[c] >= 0
    /\ Abs(SumOver(manager.percentages, Components) - Unit) * 100 <= Unit

\* C10 witness: the constructor turned down a configuration whose sum is in
\* range for a negative fraction, and the caller holds no manager.
C10_NegativeRejectedReached ==
  /\ ~manager.exists
  /\ budgetErr = "negative"

\* ---- C15
\* C15 (as stated): with a ceiling <= 0 either truncator returns the empty
\* string and 0 tokens, whatever the text.
C15_NoCeilingNoText ==
  (Truncated /\ limit <= 0) => (retText = <<>> /\ retTokens = 0)

\* ---- C18
\* C18 (as stated): the estimate of a codepoint prefix of a text is never
\* above the estimate of the text.
C18_CountMonotonic ==
  Truncated => \A k \in 0..Len(text) : Count(Take(text, k)) <= Count(text)

\* ---- C19
\* a text of CJK codepoints only: one line, one word
IsCJKRun(t) == t # <<>> /\ \A i \in 1..Len(t) : isChinese(t[i])

\* C19 (as stated, for CJK runs of the model's lengths and the ceilings
\* below their estimate): truncation returns the prefix the codepoint-level
\* binary search finds, a prefix of the text with Count <= ceiling.
C19_CJKRunCutBySearch ==
  (Truncated /\ IsCJKRun(text) /\ limit >= 1 /\ Count(text) > limit)
    => /\ retText = truncateLineByCharacters(text, limit)
       /\ IsPrefix(retText, text)
       /\ Count(retText) <= limit

\* ---- C16
\* C16 (as stated): a GetCurrent called while the backing file is absent or
\* empty returns the empty string, whatever was loaded before.
C16_AbsentReadsEmpty ==
  (pc[1] = "idle" /\ ret[1].op = "GetCurrent" /\ (~seen.exists \/ seen.text = <<>>))
    => ret[1].text = <<>>

\* ---- C17
\* C17 (as stated): a parent directory that was absent when the run began
\* is still absent after the manager was constructed and Update was called.
C17_DirectoryNotProvisioned ==
  ~dirBefore => ~dirExists

\* ---- C20
\* every slice the search takes is within the line, and the text it returns
\* is the one truncateLineByCharacters returns
SearchInRange ==
  /\ 0 <= left /\ left <= Len(sLine) + 1
  /\ -1 <= right /\ right <= Len(sLine)
  /\ 0 <= bestEnd /\ bestEnd <= Len(sLine)
  /\ (spc = "loop" /\ left <= right) => (left + right) \div 2 \in 0..Len(sLine)
  /\ spc = "done" => Take(sLine, bestEnd) = truncateLineByCharacters(sLine, sLimit)

TruncateAt(txt, tokenBudget, c) ==
  IF tokenBudget.exists THEN TruncateToTokenLimit(txt, c) ELSE TruncateToLimit(txt, c)

\* C14 (as stated): with or without a budget manager attached, the limited
\* read with ceiling c returns the pair that truncating the category's
\* current text to c returns.
C14_LimitedReadComposes ==
  Truncated =>
    [text |-> retText, tokens |-> retTokens] = TruncateAt(text, manager, limit)

\* ---- C11
\* the builder returned a context
Built == built \in {"tokenAware", "full"}

\* C11 (as stated): no field of an assembled context is the empty string.
C11_NoEmptyField ==
  Built => \A f \in Fields6 : ctx[f] # <<>>

\* ---- C12
\* the labels of a formatted context, in the order they are rendered
LabelsOf(out) == SelectSeq(out, LAMBDA x : x \in Labels)

\* a holds no element twice and its elements come in the order they have in b
InOrderOf(a, b) ==
  /\ \A i \in 1..Len(a) : \E j \in 1..Len(b) : b[j] = a[i]
  /\ \A i, j \in 1..Len(a) :
       i < j => \E m, n \in 1..Len(b) : m < n /\ b[m] = a[i] /\ b[n] = a[j]

\* the order the statement gives
StatedOrder == <<"#title", "#summary", "#worldview", "#characters", "#plan", "#chapters">>

FailedCategories ==
  {k \in {"title", "index", "worldview", "chapter", "plan"} : files[k].status = "failed"}
    \cup (IF files.character.layout = "unreadable" THEN {"character"} ELSE {})

\* C13 (as stated): when fetching a category failed, BuildTokenAwareContext
\* still returns a context and reports the failure to its caller.
C13_FailureReported ==
  (built = "tokenAware" /\ FailedCategories # {}) => ctxErr # "nil"

\* ---- C21
\* the rule as stated: ceil(total * weight) per category; when the ceilings
\* sum to more than total, floor(ceiling * total / sum), at least 1 for the
\* categories whose weight is above 0
StatedAllocation(total, percentages) ==
  LET ceiling == [c \in Components |-> (total * percentages[c] + (Unit - 1)) \div Unit]
      sum == SumOver(ceiling, Components)
  IN  IF sum > total
      THEN [c \in Components |->
              LET adjusted == (ceiling[c] * total) \div sum
              IN  IF adjusted < 1 /\ percentages[c] > 0 THEN 1 ELSE adjusted]
      ELSE ceiling

\* C21 (as stated): the map AllocateTokens returns is the one the stated
\* single-pass rule gives, so a category of weight 0 gets the ceiling 0.
C21_SinglePassRule ==
  \A a \in allocated : a = StatedAllocation(manager.maxTokens, manager.percentages)

\* ---- C22
\* more than 50% of the token's codepoints are CJK
CJKDominant(w) == 2 * Cardinality({i \in 1..Len(w) : isChinese(w[i])}) > Len(w)

\* the token is not CJK-dominant and more than 70% of its codepoints are digits
NumericDominant(w) ==
  ~CJKDominant(w) /\ 10 * Cardinality({i \in 1..Len(w) : IsDigit(w[i])}) > 7 * Len(w)

\* every other token
LatinOrMixed(w) == ~CJKDominant(w) /\ ~NumericDominant(w)

\* what one token adds to the reference estimate, in hundredths
Contribution(w) ==
  IF CJKDominant(w) THEN 150 * Len(w)
  ELSE IF NumericDominant(w) THEN 50
  ELSE 75 + 33 * Cardinality({i \in 1..Len(w) : IsPunct(w[i])})

RECURSIVE SumContributions(_)
SumContributions(ws) ==
  IF ws = <<>> THEN 0 ELSE Contribution(Head(ws)) + SumContributions(Tail(ws))

\* the reference estimate: the contributions summed and floored once
ReferenceEstimate(txt) == SumContributions(Fields(txt)) \div 100

\* the estimate with one truncation per class: the CJK codepoints times 1.5,
\* the Latin/mixed tokens times 0.75, half the numeric tokens and a third of
\* the punctuation codepoints of the Latin/mixed tokens, each rounded down
\* before they are added
PerClassEstimate(txt) ==
  LET ws == Fields(txt)
      idx == 1..Len(ws)
      cjk == UNION {{<<i, j>> : j \in 1..Len(ws[i])} : i \in {k \in idx : CJKDominant(ws[k])}}
      latin == {k \in idx : LatinOrMixed(ws[k])}
      numeric == {k \in idx : NumericDominant(ws[k])}
      punct == UNION {{<<i, j>> : j \in {m \in 1..Len(ws[i]) : IsPunct(ws[i][m])}} : i \in latin}
  IN  ((3 * Cardinality(cjk)) \div 2) + ((3 * Cardinality(latin)) \div 4)
        + (Cardinality(numeric) \div 2) + (Cardinality(punct) \div 3)

\* C22 (as stated): Count(text) is the reference estimate, floored once.
C22_ReferenceEstimate ==
  truncator = "count" => retTokens = ReferenceEstimate(text)

\* C22 (amended): Count(text) is the sum of four terms each rounded down on
\* its own: floor(1.5 * CJK codepoints), floor(0.75 * Latin/mixed tokens),
\* floor(numeric tokens / 2) and floor(punctuation codepoints / 3).
C22_PerClassFloor ==
  truncator = "count" => retTokens = PerClassEstimate(text)

\* C22 witness: Count ran on a text of a CJK token and a Latin token, whose
\* fractions 0.5 and 0.75 are dropped one by one.
C22_FractionsDroppedReached ==
  /\ truncator = "count"
  /\ \E w1, w2 \in Range(Fields(text)) : CJKDominant(w1) /\ LatinOrMixed(w2)
  /\ retTokens < ReferenceEstimate(text)

\* ---- C23
\* C23 (as stated): for a limit above 0 the search returns a prefix that
\* fits the limit, and no longer codepoint prefix of the line fits it.
C23_LongestFittingPrefix ==
  (spc = "done" /\ sLimit > 0) =>
    /\ Count(Take(sLine, bestEnd)) <= sLimit
    /\ \A k \in (bestEnd + 1)..Len(sLine) : Count(Take(sLine, k)) > sLimit

\* ---- C24
\* the record is stale: the file's modification time is strictly newer than
\* the cached one
Stale == fileExists /\ fileModTime > lastModTime

\* GetCurrent, having tested the record, goes on to Load (reads) or to
\* return bfm.current (does not read)
Decides(t) ==
  /\ pc[t] \in {"gcIsModified", "gcEmpty"}
  /\ pc'[t] \in {"ldExists", "gcReturn"}

\* C24 (as stated): GetCurrent goes to storage exactly when nothing has been
\* loaded yet or the record is stale; a loaded record that is not stale, one
\* loaded with empty content included, is returned from the cache.
C24_RereadOnlyUnloadedOrStale ==
  [][\A t \in Threads :
       Decides(t) => ((pc'[t] = "ldExists") <=> (~loaded \/ Stale))]_vars

\* ---- C25
\* C25 (as stated): the count either truncator returns with a text is Count
\* of that text.
C25_ReturnedCountIsCount ==
  Truncated => retTokens = Count(retText)

\* ---- C26
\* C26 (as stated): a planner mutation whose storage write fails returns the
\* error and leaves the plans in memory as they were: GetPlan and
\* GetAllPlans return afterwards what they returned before the call.
C26_FailedWriteKeepsPlans ==
  [][(PlannerMutation /\ plannerErr' = "write") =>
       /\ SortByChapter(LoadedPlans') = SortByChapter(LoadedPlans)
       /\ \A chapter \in PlanChapters :
            PlanOf(LoadedPlans', chapter) = PlanOf(LoadedPlans, chapter)]_vars

\* ---- C27
\* Execute is called at most MaxRetries+1 times
WithinMaxAttempts ==
  executeCalls <= (IF maxAttempts > 0 THEN maxAttempts ELSE 0)

\* C27 (as stated): Execute is called at most MaxRetries+1 times, and not
\* again after a success, after an error ShouldRetry rejects, or after the
\* context was cancelled during a wait.
C27_NoAttemptAfterCancel ==
  /\ []WithinMaxAttempts
  /\ [][(retryClosed \/ cancelledInWait) => executeCalls' = executeCalls]_vars

\* C27 (amended): Execute is called at most MaxRetries+1 times, and not
\* again after a success, after an error ShouldRetry rejects, or after a
\* wait that returned the context's error.
C27_NoAttemptAfterEnd ==
  /\ []WithinMaxAttempts
  /\ [][retryClosed => executeCalls' = executeCalls]_vars

\* C27 witness: a wait between two attempts was interrupted and the call
\* returned with attempts left.
C27_InterruptedReached ==
  /\ rpc = "done"
  /\ retryRet = "interrupted"
  /\ executeCalls >= 1
  /\ executeCalls < maxAttempts

\* ---- C28
\* the tasks a worker has taken from the channel
Dequeued == ({wTask[w] : w \in Workers} \ {0}) \cup doneTasks

RECURSIVE SumCounted(_)
SumCounted(S) ==
  IF S = {} THEN 0 ELSE LET k == CHOOSE x \in S : TRUE IN counted[k] + SumCounted(S \ {k})

\* C28: a dequeued task is passed to its processor at most MaxRetries+1
\* times; when processTaskWithRetry has returned one counter has been
\* increased for it, once; no counter is increased for a task that was not
\* dequeued; and completedTasks + failedTasks is at most the number of tasks
\* Enqueue accepted.
C28_CountedOnce ==
  /\ \A k \in Tasks :
       /\ processCalls[k] <= mqMaxRetries + 1
       /\ counted[k] <= 1
       /\ k \in doneTasks => counted[k] = 1
       /\ k \notin Dequeued => (counted[k] = 0 /\ processCalls[k] = 0)
  /\ Dequeued \subseteq accepted
  /\ completedTasks + failedTasks = SumCounted(Tasks)
  /\ completedTasks + failedTasks <= Cardinality(accepted)

\* C28 witness: a task failed on every attempt, more than one, and was
\* counted failed, while another was counted completed.
C28_RetriedAndCountedReached ==
  /\ failedTasks = 1
  /\ completedTasks = 1
  /\ \E k \in doneTasks : processCalls[k] = mqMaxRetries + 1 /\ processCalls[k] >= 2

\* ---- C29
\* C29 (as stated): once Shutdown has begun no Enqueue adds a task, and no
\* Enqueue sends on the closed channel.
C29_ShutdownStopsEnqueue ==
  ~panicked /\ acceptedLate = {}

\* ---- C30
\* C30 (as stated): WaitUntilComplete returns only when every task Enqueue
\* accepted has been counted completed or failed and no worker holds a task.
C30_ReturnsWhenAllCounted ==
  [][(waitPc # "returned" /\ waitPc' = "returned") =>
       /\ completedTasks + failedTasks = Cardinality(accepted)
       /\ \A w \in Workers : wTask[w] = 0]_vars

====
